---------------------------- MODULE Spec2Model ----------------------------
(***************************************************************************)
(* Keeling-curve demonstration pipeline (connorjmack/csp-data-workshop).   *)
(*                                                                         *)
(* The model follows the Python sources:                                   *)
(*   demo/keeling-curve/fetch_data.py   download_data and its script body  *)
(*   demo/keeling-curve/clean_data.py   load_and_clean and its script body *)
(*   demo/run_pipeline.py               the combined driver                *)
(*                                                                         *)
(* Text is a sequence of one-character strings, so that lower(), strip()   *)
(* and the `in` substring test are computed and not assumed.  Numbers of   *)
(* the CSV files are integers counted in hundredths (315.62 is 31562, the  *)
(* year 1959 is 195900, the sentinel -99.99 is -9999).                     *)
(***************************************************************************)
EXTENDS Integers, Sequences, FiniteSets, Bags, TLC

VARIABLES
    script,     \* the script the user started last, "none" before the first
    pc,         \* position of that script: "exit" once it has ended
    exitCode,   \* exit status of the last script that ended: "none", "0", "1"
    exc,        \* exception that ended the last script, "none" if it ended normally
    runs,       \* number of scripts started so far
    sysPath,    \* whether the directory of the stage modules is on sys.path
    http,       \* the HTTP response download_data saw last
    fetched,    \* what the last download_data call did: "none", "saved", "failed"
    started,    \* stages the driver has started in this run, in order
    rawFile,    \* co2_monthly.csv
    histFile,   \* co2_historical.csv
    cleanFile,  \* co2_clean.csv
    df,         \* the data frame the running script holds
    colMap,     \* load_and_clean's col_map, one entry per raw column
    growth_df,      \* analyze.py: the frame calculate_growth_rate returned
    decade_stats,   \* analyze.py: the frame calculate_decadal_statistics returned
    decomp_df,      \* analyze.py: the frame perform_seasonal_decomposition returned
    fit,            \* analyze.py: the coefficients of the fits and what is printed of them
    decompFile,     \* analysis_decomposition.csv
    growthFile,     \* analysis_growth_rate.csv
    decadeFile,     \* analysis_by_decade.csv
    charts,         \* the PNG files visualize.py has saved
    figures,        \* visualize_interactive.py: the figures created so far
    dashboard,      \* keeling_dashboard.html
    printed         \* what the historical chart function printed, "none" before it ran

\* State of the analyzer and of the two visualizers.
downstream == <<growth_df, decade_stats, decomp_df, fit,
                decompFile, growthFile, decadeFile, charts, figures, dashboard, printed>>

vars == <<script, pc, exitCode, exc, runs, sysPath, http, fetched, started,
          rawFile, histFile, cleanFile, df, colMap, downstream>>

-----------------------------------------------------------------------------
(* Text *)

UpperCase == <<"A","B","C","D","E","F","G","H","I","J","K","L","M",
               "N","O","P","Q","R","S","T","U","V","W","X","Y","Z">>
LowerCase == <<"a","b","c","d","e","f","g","h","i","j","k","l","m",
               "n","o","p","q","r","s","t","u","v","w","x","y","z">>

lower_char(c) ==
    IF \E i \in 1..Len(UpperCase) : UpperCase[i] = c
    THEN LowerCase[CHOOSE i \in 1..Len(UpperCase) : UpperCase[i] = c]
    ELSE c

\* str.lower()
lower(s) == [i \in 1..Len(s) |-> lower_char(s[i])]

RECURSIVE lstrip(_)
lstrip(s) == IF s # <<>> /\ Head(s) = " " THEN lstrip(Tail(s)) ELSE s

RECURSIVE rstrip(_)
rstrip(s) ==
    IF s # <<>> /\ s[Len(s)] = " " THEN rstrip(SubSeq(s, 1, Len(s) - 1)) ELSE s

\* str.strip()
strip(s) == rstrip(lstrip(s))

\* sub in s
contains(sub, s) ==
    \E i \in 0..(Len(s) - Len(sub)) : SubSeq(s, i + 1, i + Len(sub)) = sub

\* The words of the cleaner's vocabulary and its canonical column names.
W_yr         == <<"y","r">>
W_year       == <<"y","e","a","r">>
W_mn         == <<"m","n">>
W_month      == <<"m","o","n","t","h">>
W_co2        == <<"c","o","2">>
W_seasonally == <<"s","e","a","s","o","n","a","l","l","y">>
W_fit        == <<"f","i","t">>
W_co2_adjusted == <<"c","o","2","_","a","d","j","u","s","t","e","d">>
W_co2_fit    == <<"c","o","2","_","f","i","t">>
W_date       == <<"d","a","t","e">>

-----------------------------------------------------------------------------
(* Cells and frames *)

Num(n) == [k |-> "num", v |-> n]
NaN    == [k |-> "nan", v |-> 0]
Empty  == [k |-> "empty", v |-> 0]
Text   == [k |-> "text", v |-> 0]
Date(y, m) == [k |-> "date", v |-> 12 * y + (m - 1)]

\* The missing-value sentinel -99.99, in hundredths.
Sentinel == -9999

\* Bounds of pandas' Timestamp, the years to_datetime accepts.
MinTimestampYear == 1678
MaxTimestampYear == 2261

Absent == [kind |-> "absent"]
CsvFile(header, rows) == [kind |-> "csv", header |-> header, rows |-> rows]
Frame(columns, rows) == [columns |-> columns, rows |-> rows]
NoFrame == Frame(<<>>, <<>>)

\* Nothing fitted yet.
NoFit == [z0 |-> [n |-> 0, d |-> 1], curvature |-> [n |-> 0, d |-> 1], done |-> FALSE]

\* A plotly figure and the decade traces added to it; Python's None; and the
\* entry of a figure that is not created yet.
Fig(kind, traces) == [kind |-> kind, traces |-> traces]
None == Fig("None", <<>>)
NotCreated == Fig("not created", <<>>)

NoFigures ==
    [overview |-> NotCreated, decomposition |-> NotCreated, growth |-> NotCreated,
     decades |-> NotCreated, seasonal |-> NotCreated, historical |-> NotCreated]

\* The analyzer and the visualizers have not run and have left no file.
DownstreamIdle ==
    /\ growth_df = NoFrame /\ decade_stats = NoFrame /\ decomp_df = NoFrame
    /\ fit = NoFit
    /\ decompFile = Absent /\ growthFile = Absent /\ decadeFile = Absent
    /\ charts = {} /\ figures = NoFigures /\ dashboard = Absent /\ printed = "none"

\* Positions of the columns labelled c.
Positions(columns, c) == {i \in 1..Len(columns) : columns[i] = c}

\* The elements of the set of integers S in ascending order.
Ascending(S) ==
    [j \in 1..Cardinality(S) |->
        CHOOSE x \in S : Cardinality({y \in S : y < x}) = j - 1]

RECURSIVE Concat(_)
Concat(ss) == IF ss = <<>> THEN <<>> ELSE Head(ss) \o Concat(Tail(ss))


-----------------------------------------------------------------------------
(* fetch_data.py *)

NoResponse == [kind |-> "none", status |-> 0, body |-> Absent]

\* requests.get(url, timeout=30) returns a response ("ok") with a status and a
\* body, or raises ConnectionError or Timeout, both RequestException.
Response(kind, status, body) == [kind |-> kind, status |-> status, body |-> body]

\* response.raise_for_status() raises HTTPError, a RequestException, for the
\* statuses 400..599.
raise_for_status(status) == status >= 400 /\ status < 600

\* download_data with the file opened for writing before the request is made.
download_data_open_first(resp, file) ==
    IF resp.kind # "ok" \/ raise_for_status(resp.status)
    THEN [file |-> CsvFile(<<>>, <<>>), printed |-> "failed", exc |-> "none"]
    ELSE [file |-> resp.body, printed |-> "saved", exc |-> "none"]

\* download_data(url, output_path) when requests.get answers resp and the
\* file at output_path holds file: the file afterwards, what was printed
\* ("saved" for the line with the check mark, "failed" for the line with the
\* cross) and the exception that leaves the function ("none": it returns).
download_data(resp, file) ==
    IF resp.kind # "ok" \/ raise_for_status(resp.status)
    THEN [file |-> file, printed |-> "failed", exc |-> "none"]
    ELSE [file |-> resp.body, printed |-> "saved", exc |-> "none"]

-----------------------------------------------------------------------------
(* clean_data.py *)

\* read_csv without na_values: only the empty field is read as NaN.
na_filter_default(cell) == IF cell.k = "empty" THEN NaN ELSE cell

\* na_values=["-99.99", -99.99] and the parser's default: an empty field and
\* the sentinel are read as NaN, in every column.
na_filter(cell) ==
    IF cell.k = "empty" \/ (cell.k = "num" /\ cell.v = Sentinel) THEN NaN ELSE cell

DigitChars == <<"1","2","3","4","5","6","7","8","9">>

\* read_csv renames a repeated header name X to X.1, X.2, ...
mangle_dupe_cols(names) ==
    [i \in 1..Len(names) |->
        LET n == Cardinality({j \in 1..(i - 1) : names[j] = names[i]})
        IN  IF n = 0 THEN names[i] ELSE names[i] \o <<".", DigitChars[n]>>]

\* pd.read_csv(input_path, comment='"', header=0, skipinitialspace=True,
\*             na_values=[...]) followed by df.columns.str.strip()
read_csv(file) ==
    LET names == mangle_dupe_cols([i \in 1..Len(file.header) |-> lstrip(file.header[i])])
    IN  Frame([i \in 1..Len(names) |-> strip(names[i])],
              [r \in 1..Len(file.rows) |->
                  [i \in 1..Len(file.rows[r]) |-> na_filter(file.rows[r][i])]])

NoName == <<>>

\* col_map with every rule a substring test, in the order of the chain.
col_map_substring(col) ==
    LET col_lower == strip(lower(col))
    IN  IF contains(W_yr, col_lower) \/ contains(W_year, col_lower) THEN W_year
        ELSE IF contains(W_mn, col_lower) \/ contains(W_month, col_lower) THEN W_month
        ELSE IF contains(W_co2, col_lower) THEN W_co2
        ELSE IF contains(W_seasonally, col_lower) THEN W_co2_adjusted
        ELSE IF contains(W_fit, col_lower) THEN W_co2_fit
        ELSE NoName

\* col_map with the co2 rule written "co2" in col_lower.
col_map_co2_substring(col) ==
    LET col_lower == strip(lower(col))
    IN  IF col_lower \in {W_yr, W_year} THEN W_year
        ELSE IF col_lower \in {W_mn, W_month} THEN W_month
        ELSE IF contains(W_co2, col_lower) THEN W_co2
        ELSE IF contains(W_seasonally, col_lower) THEN W_co2_adjusted
        ELSE IF col_lower = W_fit THEN W_co2_fit
        ELSE NoName

\* The if/elif chain that fills col_map: the canonical name of a raw column,
\* NoName when the column gets no entry.
col_map(col) ==
    LET col_lower == strip(lower(col))
    IN  IF col_lower \in {W_yr, W_year} THEN W_year
        ELSE IF col_lower \in {W_mn, W_month} THEN W_month
        ELSE IF col_lower = W_co2 THEN W_co2
        ELSE IF contains(W_seasonally, col_lower) THEN W_co2_adjusted
        ELSE IF col_lower = W_fit THEN W_co2_fit
        ELSE NoName

\* df.rename(columns=col_map)
rename(columns) ==
    [i \in 1..Len(columns) |->
        IF col_map(columns[i]) # NoName THEN col_map(columns[i]) ELSE columns[i]]

CanonOrder == <<W_year, W_month, W_co2, W_co2_adjusted, W_co2_fit>>

\* keep_cols = [c for c in [...] if c in df.columns]
keep_cols(columns) ==
    SelectSeq(CanonOrder, LAMBDA c : Positions(columns, c) # {})

\* df[keep_cols]: every column carrying a kept label, label by label.
select_columns(frame, keep) ==
    LET pos == Concat([k \in 1..Len(keep) |-> Ascending(Positions(frame.columns, keep[k]))])
    IN  Frame([i \in 1..Len(pos) |-> frame.columns[pos[i]]],
              [r \in 1..Len(frame.rows) |->
                  [i \in 1..Len(pos) |-> frame.rows[r][pos[i]]]])

\* pd.to_numeric(..., errors="coerce") on one value
to_numeric(cell) == IF cell.k = "num" THEN cell ELSE NaN

\* column_error with a check of the schema made before the columns are used.
column_error_schema(columns, c) ==
    IF Positions(columns, c) = {} THEN "SchemaError"
    ELSE IF Cardinality(Positions(columns, c)) > 1 THEN "TypeError"
    ELSE "none"

\* df[c] = pd.to_numeric(df[c], errors="coerce"): "KeyError" without a column
\* c, "TypeError" when several columns carry the label (df[c] is a frame).
column_error(columns, c) ==
    IF Positions(columns, c) = {} THEN "KeyError"
    ELSE IF Cardinality(Positions(columns, c)) > 1 THEN "TypeError"
    ELSE "none"

Col(columns, c) == CHOOSE i \in Positions(columns, c) : TRUE

coerce_column(frame, c) ==
    Frame(frame.columns,
          [r \in 1..Len(frame.rows) |->
              [frame.rows[r] EXCEPT ![Col(frame.columns, c)] = to_numeric(@)]])

\* dropna followed by drop_duplicates(subset=["year", "month"]).
dropna_drop_duplicates(frame) ==
    LET y == Col(frame.columns, W_year)
        m == Col(frame.columns, W_month)
        c == Col(frame.columns, W_co2)
        ok == SelectSeq(frame.rows, LAMBDA row : row[y].k # "nan" /\ row[c].k # "nan")
        first == {i \in 1..Len(ok) :
                    \A j \in 1..(i - 1) : <<ok[j][y], ok[j][m]>> # <<ok[i][y], ok[i][m]>>}
        pos == Ascending(first)
    IN  Frame(frame.columns, [i \in 1..Len(pos) |-> ok[pos[i]]])

\* df.dropna(subset=["year", "co2"])
dropna(frame) ==
    LET y == Col(frame.columns, W_year)
        c == Col(frame.columns, W_co2)
    IN  Frame(frame.columns,
              SelectSeq(frame.rows, LAMBDA row : row[y].k # "nan" /\ row[c].k # "nan"))

\* astype(int) of a float: truncation toward zero
astype_int(v) == IF v >= 0 THEN v \div 100 ELSE -((-v) \div 100)

\* Whether year.astype(int), month.astype(int) and pd.to_datetime succeed on a row.
date_ok(row, y, m) ==
    /\ row[m].k = "num"
    /\ astype_int(row[m].v) \in 1..12
    /\ astype_int(row[y].v) \in MinTimestampYear..MaxTimestampYear

\* The date as a new first column.
add_date_first(frame) ==
    LET y == Col(frame.columns, W_year)
        m == Col(frame.columns, W_month)
    IN  Frame(<<W_date>> \o frame.columns,
              [r \in 1..Len(frame.rows) |->
                  <<Date(astype_int(frame.rows[r][y].v),
                         astype_int(frame.rows[r][m].v))>> \o frame.rows[r]])

\* df["date"] = pd.to_datetime(year-month-01): a new last column
add_date(frame) ==
    LET y == Col(frame.columns, W_year)
        m == Col(frame.columns, W_month)
    IN  Frame(Append(frame.columns, W_date),
              [r \in 1..Len(frame.rows) |->
                  Append(frame.rows[r],
                         Date(astype_int(frame.rows[r][y].v),
                              astype_int(frame.rows[r][m].v)))])

\* reset_index without the sort.
sort_values_missing(frame) == {frame}

\* df.sort_values("date").reset_index(drop=True): the default sort is not
\* stable, so rows of equal date may come out in any order.
sort_values(frame) ==
    LET n == Len(frame.rows)
        d == Len(frame.columns)
    IN  { Frame(frame.columns, [i \in 1..n |-> frame.rows[p[i]]]) :
            p \in { q \in [1..n -> 1..n] :
                      /\ \A i, j \in 1..n : i # j => q[i] # q[j]
                      /\ \A i \in 1..(n - 1) :
                            frame.rows[q[i]][d].v <= frame.rows[q[i + 1]][d].v } }

Raised(e, cm) == [exc |-> e, df |-> NoFrame, col_map |-> cm]
Returned(f, cm) == [exc |-> "none", df |-> f, col_map |-> cm]

\* load_and_clean(input_path): the set of its possible outcomes, each either
\* an exception or the returned frame.
load_and_clean(file) ==
    IF file = Absent THEN {Raised("FileNotFoundError", <<>>)}
    ELSE
    LET raw == read_csv(file)
        cm == [i \in 1..Len(raw.columns) |-> col_map(raw.columns[i])]
        renamed == Frame(rename(raw.columns), raw.rows)
        kept == select_columns(renamed, keep_cols(renamed.columns))
        e1 == column_error(kept.columns, W_year)
        e2 == column_error(kept.columns, W_month)
        e3 == column_error(kept.columns, W_co2)
    IN  IF e1 # "none" THEN {Raised(e1, cm)}
        ELSE IF e2 # "none" THEN {Raised(e2, cm)}
        ELSE IF e3 # "none" THEN {Raised(e3, cm)}
        ELSE
        LET typed == coerce_column(coerce_column(coerce_column(kept, W_year), W_month), W_co2)
            dropped == dropna(typed)
            y == Col(dropped.columns, W_year)
            m == Col(dropped.columns, W_month)
        IN  IF \E r \in 1..Len(dropped.rows) : ~date_ok(dropped.rows[r], y, m)
            THEN {Raised("ValueError", cm)}
            ELSE {Returned(f, cm) : f \in sort_values(add_date(dropped))}

\* df.to_csv(OUTPUT_FILE, index=False)
to_csv(frame) == CsvFile(frame.columns, frame.rows)


-----------------------------------------------------------------------------
(* Raw files *)

\* Raw headers: each column is <<name, role>>.  The role says which value of
\* a measurement the file holds in that column ("y" year, "m" month, "c" co2,
\* "x" another value); load_and_clean sees the names only.
Headers ==
    << \* the Scripps names
       << <<<<"Y","r">>, "y">>, <<<<"M","n">>, "m">>, <<<<"C","O","2">>, "c">> >>,
       \* other case, surrounding blanks
       << <<<<" ","Y","E","A","R"," ">>, "y">>, <<<<"M","o","n","t","h">>, "m">>, <<<<"c","o","2"," ">>, "c">> >>,
       \* the Scripps file's other columns
       << <<<<"Y","r">>, "y">>, <<<<"M","n">>, "m">>, <<<<"D","a","t","e">>, "x">>, <<<<"C","O","2">>, "c">>, <<<<"s","e","a","s","o","n","a","l","l","y">>, "x">>, <<<<"f","i","t">>, "x">> >>,
       \* another column order
       << <<<<"C","O","2">>, "c">>, <<<<"f","i","t">>, "x">>, <<<<"M","n">>, "m">>, <<<<"Y","r">>, "y">> >>,
       \* names that only contain a keyword
       << <<<<"Y","e","a","r","_","A","D">>, "y">>, <<<<"M","n">>, "m">>, <<<<"C","O","2"," ","[","p","p","m","]">>, "c">> >>,
       \* names that contain several keywords
       << <<<<"Y","r">>, "y">>, <<<<"M","n">>, "m">>, <<<<"C","O","2">>, "c">>, <<<<"c","o","2"," ","s","e","a","s","o","n","a","l","l","y"," ","f","i","t">>, "x">>, <<<<"F","i","t","_","C","O","2">>, "x">> >>,
       \* the same, in another order
       << <<<<"F","i","t","_","C","O","2">>, "x">>, <<<<"c","o","2"," ","s","e","a","s","o","n","a","l","l","y"," ","f","i","t">>, "x">>, <<<<"C","O","2">>, "c">>, <<<<"M","n">>, "m">>, <<<<"Y","r">>, "y">> >>,
       \* two columns for the year
       << <<<<"Y","r">>, "y">>, <<<<"Y","e","a","r">>, "x">>, <<<<"M","n">>, "m">>, <<<<"C","O","2">>, "c">> >>,
       \* repeated names, as in the Scripps file
       << <<<<"Y","r">>, "y">>, <<<<"M","n">>, "m">>, <<<<"C","O","2">>, "c">>, <<<<"s","e","a","s","o","n","a","l","l","y">>, "x">>, <<<<"C","O","2">>, "x">>, <<<<"s","e","a","s","o","n","a","l","l","y">>, "x">> >>,
       \* no month column
       << <<<<"Y","r">>, "y">>, <<<<"C","O","2">>, "c">> >>,
       \* a canonical name as raw name, and refit
       << <<<<"Y","r">>, "y">>, <<<<"M","n">>, "m">>, <<<<"C","O","2">>, "c">>, <<<<"c","o","2","_","f","i","t">>, "x">>, <<<<"r","e","f","i","t">>, "x">> >>,
       \* no column for co2: the name only contains the keyword
       << <<<<"Y","r">>, "y">>, <<<<"M","n">>, "m">>, <<<<"C","O","2"," ","[","p","p","m","]">>, "c">> >>,
       \* no column for co2, and two columns for the year
       << <<<<"Y","r">>, "y">>, <<<<"Y","e","a","r">>, "x">>, <<<<"M","n">>, "m">> >> >>

\* Measurements: year, month, co2 and another value, as written in the file.
RowShapes ==
    << [y |-> Num(195900), m |-> Num(100),  c |-> Num(31562),    x |-> Num(31500)],
       [y |-> Num(195900), m |-> Num(200),  c |-> Num(Sentinel), x |-> Num(31600)],
       [y |-> Num(195900), m |-> Num(300),  c |-> Num(31730),    x |-> Num(31700)],
       [y |-> Num(195800), m |-> Num(1200), c |-> Num(31400),    x |-> Empty],
       [y |-> Num(195900), m |-> Num(100),  c |-> Num(31600),    x |-> Num(31500)],
       [y |-> Empty,       m |-> Num(100),  c |-> Num(31600),    x |-> Num(31500)],
       [y |-> Num(195900), m |-> Num(100),  c |-> Text,          x |-> Text],
       [y |-> Text,        m |-> Text,      c |-> Text,          x |-> Text],
       [y |-> Num(Sentinel), m |-> Num(100), c |-> Num(31600),   x |-> Num(31500)],
       [y |-> Num(195900), m |-> Empty,     c |-> Num(31600),    x |-> Num(31500)],
       [y |-> Num(195900), m |-> Num(1300), c |-> Num(31600),    x |-> Num(31500)],
       [y |-> Num(195900), m |-> Num(250),  c |-> Num(31650),    x |-> Num(31500)],
       [y |-> Num(195900), m |-> Text,      c |-> Num(31600),    x |-> Num(31500)] >>

\* Largest number of data rows of a raw file.
MaxRows == 3

RowSeqs(n) == UNION {[1..k -> 1..Len(RowShapes)] : k \in 0..n}

\* The raw file with header h holding the measurements rs, in this order.
RawFile(h, rs) ==
    CsvFile([i \in 1..Len(h) |-> h[i][1]],
            [r \in 1..Len(rs) |->
                [i \in 1..Len(h) |->
                    LET shape == RowShapes[rs[r]]
                    IN  CASE h[i][2] = "y" -> shape.y
                          [] h[i][2] = "m" -> shape.m
                          [] h[i][2] = "c" -> shape.c
                          [] OTHER -> shape.x]])

\* Raw files: up to MaxRows measurements under the Scripps names, and at most
\* one measurement under every other header.
RawInputs ==
    {RawFile(Headers[1], rs) : rs \in RowSeqs(MaxRows)}
        \cup {RawFile(Headers[h], rs) : h \in 2..Len(Headers), rs \in RowSeqs(1)}

-----------------------------------------------------------------------------
(* Script runs *)

\* A script ends: normally with status 0, by an unhandled exception with 1.
Exit(e) ==
    /\ pc' = "exit"
    /\ exc' = e
    /\ exitCode' = IF e = "none" THEN "0" ELSE "1"

\* clean_data.py, line 83: df = load_and_clean(INPUT_FILE)
CleanLoad ==
    /\ script = "clean_data" /\ pc = "load"
    /\ \E out \in load_and_clean(rawFile) :
          /\ colMap' = out.col_map
          /\ IF out.exc = "none"
             THEN /\ df' = out.df
                  /\ pc' = "save"
                  /\ UNCHANGED <<exc, exitCode>>
             ELSE /\ df' = NoFrame
                  /\ Exit(out.exc)
    /\ UNCHANGED <<script, runs, sysPath, http, fetched, started, rawFile, histFile, cleanFile>>
    /\ UNCHANGED downstream

\* clean_data.py, lines 84-86: df.to_csv(OUTPUT_FILE, index=False) and the prints
CleanSave ==
    /\ script = "clean_data" /\ pc = "save"
    /\ cleanFile' = to_csv(df)
    /\ Exit("none")
    /\ UNCHANGED <<script, runs, sysPath, http, fetched, started, rawFile, histFile, df, colMap>>
    /\ UNCHANGED downstream

\* clean_data.py run on any raw file.
InitClean ==
    /\ script = "clean_data" /\ pc = "load"
    /\ exitCode = "none" /\ exc = "none"
    /\ runs = 1
    /\ sysPath = TRUE
    /\ http = NoResponse
    /\ fetched = "none"
    /\ started = <<>>
    /\ rawFile \in RawInputs \cup {Absent}
    /\ histFile = Absent
    /\ cleanFile = Absent
    /\ df = NoFrame
    /\ colMap = <<>>
    /\ DownstreamIdle

NextClean == CleanLoad \/ CleanSave

SpecClean == InitClean /\ [][NextClean]_vars

-----------------------------------------------------------------------------
(* What the network answers *)

ErrorPage == CsvFile(<< <<"N","o","t"," ","F","o","u","n","d">> >>, <<>>)

\* Bodies served at MONTHLY_URL.
MonthlyBodies ==
    { RawFile(Headers[1], <<1, 2, 3>>),
      RawFile(Headers[1], <<3, 1>>),
      RawFile(Headers[3], <<4>>),
      RawFile(Headers[5], <<1>>),
      RawFile(Headers[1], <<10>>) }

\* Bodies served at HISTORICAL_URL.
HistoricalBodies ==
    { CsvFile(<<W_year, W_co2>>, << <<Num(180000), Num(28000)>> >>) }

\* What requests.get can answer for a URL serving one of bodies.
Responses(bodies) ==
    {Response("ok", 200, b) : b \in bodies}
        \cup {Response("ok", st, ErrorPage) : st \in {404, 503}}
        \cup {Response(k, 0, Absent) : k \in {"ConnectionError", "Timeout"}}

-----------------------------------------------------------------------------
(* fetch_data.py as a script *)

\* line 40: download_data(MONTHLY_URL, MONTHLY_FILE)
FetchMonthly ==
    /\ script = "fetch_data" /\ pc = "monthly"
    /\ \E resp \in Responses(MonthlyBodies) :
          LET r == download_data(resp, rawFile)
          IN  /\ http' = resp
              /\ rawFile' = r.file
              /\ fetched' = r.printed
              /\ IF r.exc = "none"
                 THEN pc' = "historical" /\ UNCHANGED <<exc, exitCode>>
                 ELSE Exit(r.exc)
    /\ UNCHANGED <<script, runs, sysPath, started, histFile, cleanFile, df, colMap>>
    /\ UNCHANGED downstream

\* lines 44-46: download_data(HISTORICAL_URL, HISTORICAL_FILE), then
\* "All downloads complete!"
FetchHistorical ==
    /\ script = "fetch_data" /\ pc = "historical"
    /\ \E resp \in Responses(HistoricalBodies) :
          LET r == download_data(resp, histFile)
          IN  /\ http' = resp
              /\ histFile' = r.file
              /\ fetched' = r.printed
              /\ Exit(r.exc)
    /\ UNCHANGED <<script, runs, sysPath, started, rawFile, cleanFile, df, colMap>>
    /\ UNCHANGED downstream

-----------------------------------------------------------------------------
(* run_pipeline.py *)

\* The names each stage module defines at its top level.
ModuleDefs ==
    [ fetch_data |-> {"requests", "os", "MONTHLY_URL", "MONTHLY_FILE",
                      "HISTORICAL_URL", "HISTORICAL_FILE", "download_data"},
      clean_data |-> {"pd", "INPUT_FILE", "OUTPUT_FILE", "load_and_clean"},
      analyze    |-> {"pd", "np", "stats", "signal", "seasonal_decompose", "warnings",
                      "INPUT_FILE", "OUTPUT_PREFIX", "calculate_growth_rate",
                      "perform_seasonal_decomposition", "calculate_decadal_statistics",
                      "analyze_residuals", "main"},
      visualize  |-> {"pd", "np", "plt", "mdates", "GridSpec", "warnings",
                      "plot_overview", "plot_decomposition",
                      "plot_growth_and_acceleration", "plot_historical_context",
                      "plot_seasonal_cycle", "main"} ]

\* Lines 6-9: from <module> import <names>.
Imports ==
    << [pc |-> "line6", module |-> "fetch_data", names |-> {"download_data"}],
       [pc |-> "line7", module |-> "clean_data", names |-> {"load_and_clean"}],
       [pc |-> "line8", module |-> "analyze",    names |-> {"analyze"}],
       [pc |-> "line9", module |-> "visualize",
        names |-> {"plot_full_curve", "plot_seasonal_cycle", "plot_decade_comparison"}] >>

\* from <module> import <names>: ModuleNotFoundError when the module is not
\* found on sys.path, ImportError when it does not define one of the names.
import_from(imp, onPath) ==
    IF ~onPath THEN "ModuleNotFoundError"
    ELSE IF imp.names \subseteq ModuleDefs[imp.module] THEN "none"
    ELSE "ImportError"

\* The script executes its import statements; after the last one come
\* import pandas, the definition of main and the call of main() at line 48.
DriverImport ==
    /\ script = "run_pipeline"
    /\ \E i \in 1..Len(Imports) :
          /\ pc = Imports[i].pc
          /\ LET e == import_from(Imports[i], sysPath)
             IN  IF e = "none"
                 THEN /\ pc' = IF i < Len(Imports) THEN Imports[i + 1].pc ELSE "fetch"
                      /\ UNCHANGED <<exc, exitCode>>
                 ELSE Exit(e)
    /\ UNCHANGED <<script, runs, sysPath, http, fetched, started,
                   rawFile, histFile, cleanFile, df, colMap>>
    /\ UNCHANGED downstream

\* The names the import statements would bind in the driver's namespace:
\* those of the statements that do not raise.
BoundNames ==
    UNION {Imports[i].names : i \in {j \in 1..Len(Imports) :
                                        import_from(Imports[j], TRUE) = "none"}}

\* main, lines 22-24: [1/4], download_data(DATA_URL, RAW_FILE)
MainFetch ==
    /\ script = "run_pipeline" /\ pc = "fetch"
    /\ started' = Append(started, "fetch")
    /\ \E resp \in Responses(MonthlyBodies) :
          LET r == download_data(resp, rawFile)
          IN  /\ http' = resp
              /\ rawFile' = r.file
              /\ fetched' = r.printed
              /\ IF r.exc = "none"
                 THEN pc' = "clean" /\ UNCHANGED <<exc, exitCode>>
                 ELSE Exit(r.exc)
    /\ UNCHANGED <<script, runs, sysPath, histFile, cleanFile, df, colMap>>
    /\ UNCHANGED downstream

\* main, lines 26-29: [2/4], df = load_and_clean(RAW_FILE); df.to_csv(CLEAN_FILE)
MainClean ==
    /\ script = "run_pipeline" /\ pc = "clean"
    /\ started' = Append(started, "clean")
    /\ \E out \in load_and_clean(rawFile) :
          /\ colMap' = out.col_map
          /\ df' = out.df
          /\ IF out.exc = "none"
             THEN /\ cleanFile' = to_csv(out.df)
                  /\ pc' = "analyze"
                  /\ UNCHANGED <<exc, exitCode>>
             ELSE /\ UNCHANGED cleanFile
                  /\ Exit(out.exc)
    /\ UNCHANGED <<script, runs, sysPath, http, fetched, rawFile, histFile>>
    /\ UNCHANGED downstream

\* main, lines 31-33: [3/4], analyze(CLEAN_FILE).  No import statement binds
\* the name analyze, so the call raises NameError before any stage code runs.
MainAnalyze ==
    /\ script = "run_pipeline" /\ pc = "analyze"
    /\ "analyze" \notin BoundNames
    /\ Exit("NameError")
    /\ UNCHANGED <<script, runs, sysPath, http, fetched, started,
                   rawFile, histFile, cleanFile, df, colMap>>
    /\ UNCHANGED downstream

-----------------------------------------------------------------------------
(* The user runs the scripts, one after the other *)

\* Largest number of scripts the user runs.
MaxRuns == 3

FirstPc == [fetch_data |-> "monthly", clean_data |-> "load", run_pipeline |-> "line6"]

StartScript ==
    /\ pc \in {"idle", "exit"}
    /\ runs < MaxRuns
    /\ \E s \in DOMAIN FirstPc :
          /\ script' = s
          /\ pc' = FirstPc[s]
    /\ runs' = runs + 1
    /\ exc' = "none" /\ exitCode' = "none"
    /\ http' = NoResponse /\ fetched' = "none" /\ started' = <<>>
    /\ df' = NoFrame /\ colMap' = <<>>
    /\ UNCHANGED <<sysPath, rawFile, histFile, cleanFile>>
    /\ UNCHANGED downstream

Init ==
    /\ script = "none" /\ pc = "idle"
    /\ exitCode = "none" /\ exc = "none"
    /\ runs = 0
    /\ sysPath \in BOOLEAN
    /\ http = NoResponse
    /\ fetched = "none"
    /\ started = <<>>
    /\ rawFile = Absent
    /\ histFile = Absent
    /\ cleanFile = Absent
    /\ df = NoFrame
    /\ colMap = <<>>
    /\ DownstreamIdle

Next ==
    \/ StartScript
    \/ FetchMonthly
    \/ FetchHistorical
    \/ CleanLoad
    \/ CleanSave
    \/ DriverImport

Spec == Init /\ [][Next]_vars

\* main() of run_pipeline.py, entered with the names bound that lines 6, 7 and
\* 10 bind (a session in which a failed import statement does not end the
\* run); the files are those an earlier run may have left.
InitMain ==
    /\ script = "run_pipeline" /\ pc = "fetch"
    /\ exitCode = "none" /\ exc = "none"
    /\ runs = 1
    /\ sysPath = TRUE
    /\ http = NoResponse
    /\ fetched = "none"
    /\ started = <<>>
    /\ rawFile \in MonthlyBodies \cup {Absent}
    /\ histFile = Absent
    /\ cleanFile \in {Absent} \cup
          {to_csv(out.df) : out \in {o \in load_and_clean(RawFile(Headers[1], <<3, 1>>)) :
                                        o.exc = "none"}}
    /\ df = NoFrame
    /\ colMap = <<>>
    /\ DownstreamIdle

NextMain == MainFetch \/ MainClean \/ MainAnalyze

SpecMain == InitMain /\ [][NextMain]_vars

-----------------------------------------------------------------------------
(* analyze.py: numbers *)

\* Column names of the analysis frames.
W_growth_rate         == <<"g","r","o","w","t","h","_","r","a","t","e">>
W_acceleration        == <<"a","c","c","e","l","e","r","a","t","i","o","n">>
W_growth_rate_smooth  == <<"g","r","o","w","t","h","_","r","a","t","e","_","s","m","o","o","t","h">>
W_acceleration_smooth == <<"a","c","c","e","l","e","r","a","t","i","o","n","_","s","m","o","o","t","h">>
W_decade              == <<"d","e","c","a","d","e">>
W_co2_diff            == <<"c","o","2","_","d","i","f","f">>
W_co2_mean            == <<"c","o","2","_","m","e","a","n">>
W_co2_min             == <<"c","o","2","_","m","i","n">>
W_co2_max             == <<"c","o","2","_","m","a","x">>
W_growth_mean         == <<"g","r","o","w","t","h","_","m","e","a","n">>
W_growth_std          == <<"g","r","o","w","t","h","_","s","t","d">>
W_observed            == <<"o","b","s","e","r","v","e","d">>
W_trend               == <<"t","r","e","n","d">>
W_seasonal            == <<"s","e","a","s","o","n","a","l">>
W_residual            == <<"r","e","s","i","d","u","a","l">>
W_detrended           == <<"d","e","t","r","e","n","d","e","d">>
W_deseasonalized      == <<"d","e","s","e","a","s","o","n","a","l","i","z","e","d">>

\* The floating-point results of the analysis are modelled by exact
\* fractions n/d of a hundredth, kept in lowest terms with d > 0.
RECURSIVE GCD(_, _)
GCD(a, b) == IF b = 0 THEN a ELSE GCD(b, a % b)

Abs(a) == IF a < 0 THEN -a ELSE a

Rat(n, d) ==
    LET g == GCD(Abs(n), Abs(d))
        s == IF d < 0 THEN -1 ELSE 1
    IN  [n |-> (s * n) \div g, d |-> (s * d) \div g]

RatAdd(p, q) == Rat(p.n * q.d + q.n * p.d, p.d * q.d)
RatSub(p, q) == Rat(p.n * q.d - q.n * p.d, p.d * q.d)
RatMul(p, q) == Rat(p.n * q.n, p.d * q.d)
RatDiv(p, k) == Rat(p.n, p.d * k)
RatLess(p, q) == p.n * q.d < q.n * p.d

\* A float that is not NaN.
Real(q) == [k |-> "real", v |-> q]

\* A number read from a CSV file, as a float.
ToReal(cell) ==
    CASE cell.k = "num" -> Real(Rat(cell.v, 1))
      [] cell.k = "real" -> cell
      [] OTHER -> NaN

\* a - b on floats: NaN when either is NaN
fsub(a, b) == IF a.k = "nan" \/ b.k = "nan" THEN NaN ELSE Real(RatSub(a.v, b.v))

RECURSIVE RatSum(_)
RatSum(qs) == IF qs = <<>> THEN Rat(0, 1) ELSE RatAdd(Head(qs), RatSum(Tail(qs)))

\* The values of the cells that are not NaN.
Values(cells) ==
    LET kept == SelectSeq(cells, LAMBDA c : c.k # "nan")
    IN  [i \in 1..Len(kept) |-> ToReal(kept[i]).v]

\* Series.mean(): NaN is skipped; the mean of no value is NaN
fmean(cells) ==
    LET vs == Values(cells)
    IN  IF vs = <<>> THEN NaN ELSE Real(RatDiv(RatSum(vs), Len(vs)))

\* Series.min() and Series.max(), NaN skipped
fmin(cells) ==
    LET vs == Values(cells)
    IN  IF vs = <<>> THEN NaN
        ELSE Real(vs[CHOOSE i \in 1..Len(vs) : \A j \in 1..Len(vs) : ~RatLess(vs[j], vs[i])])

fmax(cells) ==
    LET vs == Values(cells)
    IN  IF vs = <<>> THEN NaN
        ELSE Real(vs[CHOOSE i \in 1..Len(vs) : \A j \in 1..Len(vs) : ~RatLess(vs[i], vs[j])])

\* The integer nearest to the fraction q, a tie going to the even one.
RoundHalfEven(q) ==
    LET f == q.n \div q.d
        twice == 2 * (q.n - f * q.d)
    IN  IF twice < q.d THEN f
        ELSE IF twice > q.d THEN f + 1
        ELSE IF f % 2 = 0 THEN f ELSE f + 1

\* round(2) of a float: a whole number of hundredths
round2(cell) == IF cell.k = "nan" THEN NaN ELSE Real(Rat(RoundHalfEven(cell.v), 1))

\* The integer nearest to the square root of the fraction q >= 0.
RoundedSqrt(q) ==
    CHOOSE r \in 0..(q.n \div q.d + 1) :
        /\ 4 * q.n < (2 * r + 1) * (2 * r + 1) * q.d
        /\ r = 0 \/ 4 * q.n >= (2 * r - 1) * (2 * r - 1) * q.d

\* Series.std() (ddof=1) followed by round(2): NaN for fewer than two values
std_round2(cells) ==
    LET vs == Values(cells)
        n == Len(vs)
    IN  IF n < 2 THEN NaN
        ELSE LET mu == RatDiv(RatSum(vs), n)
                 sq == [i \in 1..n |-> RatMul(RatSub(vs[i], mu), RatSub(vs[i], mu))]
             IN  Real(Rat(RoundedSqrt(RatDiv(RatSum(sq), n - 1)), 1))

\* Series.diff(): each element minus the element of the row before it
diff(cells) ==
    [i \in 1..Len(cells) |-> IF i = 1 THEN NaN ELSE fsub(cells[i], cells[i - 1])]

\* Series.rolling(window, center=True).mean(): min_periods is the window, so
\* the mean is NaN unless the whole window lies in the series and holds no NaN.
rolling_mean(cells, window) ==
    [i \in 1..Len(cells) |->
        LET first == i - (window \div 2)
            last == first + window - 1
        IN  IF first < 1 \/ last > Len(cells) THEN NaN
            ELSE IF \E j \in first..last : cells[j].k = "nan" THEN NaN
            ELSE fmean(SubSeq(cells, first, last))]

\* The cells of the column labelled c.
Column(frame, c) ==
    [r \in 1..Len(frame.rows) |-> frame.rows[r][Col(frame.columns, c)]]

\* df.groupby(key)[value].mean().reset_index(): one row per value of the key,
\* in ascending order of the key.
groupby_mean(frame, key, value) ==
    LET keys == Ascending({c.v : c \in {Column(frame, key)[r] : r \in 1..Len(frame.rows)}})
        k == Col(frame.columns, key)
    IN  [i \in 1..Len(keys) |->
            <<Num(keys[i]),
              fmean(Column(Frame(frame.columns,
                                 SelectSeq(frame.rows, LAMBDA row : row[k].v = keys[i])),
                           value))>>]

-----------------------------------------------------------------------------
(* analyze.py: growth rate and decades *)

\* The columns of the growth table, the growth rate under another name.
GrowthColumnsRenamed ==
    <<W_year, W_co2, <<"g","r","o","w","t","h">>, W_acceleration,
      W_growth_rate_smooth, W_acceleration_smooth>>

\* The columns of the frame calculate_growth_rate returns.
GrowthColumns ==
    <<W_year, W_co2, W_growth_rate, W_acceleration,
      W_growth_rate_smooth, W_acceleration_smooth>>

\* The annual frame with its derived columns, row by row.
growth_frame(annual, growth, accel, growth_smooth, accel_smooth) ==
    Frame(GrowthColumns,
          [i \in 1..Len(annual) |->
              <<annual[i][1], annual[i][2], growth[i], accel[i],
                growth_smooth[i], accel_smooth[i]>>])

\* calculate_growth_rate with the acceleration taken as the first difference.
calculate_growth_rate_first_difference(frame) ==
    LET annual == groupby_mean(frame, W_year, W_co2)
        growth == diff([i \in 1..Len(annual) |-> annual[i][2]])
    IN  growth_frame(annual, growth, growth,
                     rolling_mean(growth, 5), rolling_mean(growth, 5))

\* calculate_growth_rate with averages over the five years that end in the
\* year of the row: rolling(5) without center=True.
calculate_growth_rate_trailing(frame) ==
    LET annual == groupby_mean(frame, W_year, W_co2)
        growth == diff([i \in 1..Len(annual) |-> annual[i][2]])
        accel == diff(growth)
        trailing(cells) ==
            [i \in 1..Len(cells) |->
                IF i < 5 THEN NaN ELSE rolling_mean(cells, 5)[i - 2]]
    IN  growth_frame(annual, growth, accel, trailing(growth), trailing(accel))

\* calculate_growth_rate(df)
calculate_growth_rate(frame) ==
    LET annual == groupby_mean(frame, W_year, W_co2)
        growth == diff([i \in 1..Len(annual) |-> annual[i][2]])
        accel == diff(growth)
    IN  growth_frame(annual, growth, accel,
                     rolling_mean(growth, 5), rolling_mean(accel, 5))

\* (annual["year"] // 10) * 10, the year counted in hundredths
decade_of_year(v) == (v \div 1000) * 1000

\* The elements of cells at the positions in S, in ascending position.
Pick(cells, S) ==
    LET order == Ascending(S)
    IN  [j \in 1..Len(order) |-> cells[order[j]]]

DecadeColumns ==
    <<W_decade, W_co2_mean, W_co2_min, W_co2_max, W_growth_mean, W_growth_std>>

\* The decade summary of an annual frame, decade[i] the decade of its row i.
decade_summary(annual, decade) ==
    LET n == Len(annual)
        co2 == [i \in 1..n |-> annual[i][2]]
        co2_diff == diff(co2)
        decades == Ascending({decade[i] : i \in 1..n})
    IN  Frame(DecadeColumns,
              [j \in 1..Len(decades) |->
                  LET members == {i \in 1..n : decade[i] = decades[j]}
                  IN  <<Num(decades[j]),
                        round2(fmean(Pick(co2, members))),
                        round2(fmin(Pick(co2, members))),
                        round2(fmax(Pick(co2, members))),
                        round2(fmean(Pick(co2_diff, members))),
                        std_round2(Pick(co2_diff, members))>>])

\* calculate_decadal_statistics with the year rounded to the nearest decade.
calculate_decadal_statistics_nearest(frame) ==
    LET annual == groupby_mean(frame, W_year, W_co2)
    IN  decade_summary(annual,
                       [i \in 1..Len(annual) |-> ((annual[i][1].v + 500) \div 1000) * 1000])

\* calculate_decadal_statistics(df): the index, decade, is the first column
calculate_decadal_statistics(frame) ==
    LET annual == groupby_mean(frame, W_year, W_co2)
    IN  decade_summary(annual, [i \in 1..Len(annual) |-> decade_of_year(annual[i][1].v)])

-----------------------------------------------------------------------------
(* Clean records *)

\* First year of the generated records.
FirstYear == 1957

\* co2 of a month, in hundredths of a ppm: a level that rises faster every
\* year, plus a seasonal cycle whose twelve values add up to zero; in every
\* second year January is 0.06 ppm higher, so that the mean of such a year is
\* not the level itself.
Season == <<30, 90, 160, 270, 310, 240, 80, -120, -290, -330, -250, -190>>

CO2Of(y, m) ==
    LET k == y - FirstYear
    IN  31500 + 80 * k + 4 * k * k + Season[m]
          + (IF k % 2 = 1 /\ m = 1 THEN 6 ELSE 0)

CleanColumns == <<W_year, W_month, W_co2, W_date>>

\* A record as load_and_clean returns it.
CleanRow(y, m) == <<Num(100 * y), Num(100 * m), Num(CO2Of(y, m)), Date(y, m)>>

\* The clean CSV holding one record for each of the months ms (numbered
\* 12 * year + month - 1), in ascending order.
CleanCsv(ms) ==
    LET ordered == Ascending(ms)
    IN  CsvFile(CleanColumns,
                [i \in 1..Len(ordered) |->
                    CleanRow(ordered[i] \div 12, (ordered[i] % 12) + 1)])

\* pd.read_csv(path) of a file the pipeline wrote, with parse_dates=["date"]
\* where the file has dates: an empty field is read as NaN.
read_table(file) ==
    Frame(file.header,
          [r \in 1..Len(file.rows) |->
              [i \in 1..Len(file.rows[r]) |->
                  IF file.rows[r][i].k \in {"empty", "nan"} THEN NaN
                  ELSE file.rows[r][i]]])

\* DataFrame.to_csv(path): NaN and NaT are written as empty fields.
write_table(frame) ==
    CsvFile(frame.columns,
            [r \in 1..Len(frame.rows) |->
                [i \in 1..Len(frame.rows[r]) |->
                    IF frame.rows[r][i].k = "nan" THEN Empty ELSE frame.rows[r][i]]])

-----------------------------------------------------------------------------
(* analyze.py: seasonal decomposition *)

\* A Series is a sequence of <<label, value>>.  The label of a RangeIndex:
Pos(i) == [k |-> "pos", v |-> i]

\* df[c] of a frame with the default index 0, 1, ...
series(frame, c) ==
    [r \in 1..Len(frame.rows) |-> <<Pos(r - 1), Column(frame, c)[r]>>]

\* df.set_index(idx)[c]
indexed(frame, idx, c) ==
    [r \in 1..Len(frame.rows) |-> <<Column(frame, idx)[r], Column(frame, c)[r]>>]

Labels(s) == [i \in 1..Len(s) |-> s[i][1]]

\* The elements of a sequence without the repetitions, in order of first
\* occurrence.
Unique(seq) ==
    LET first == {i \in 1..Len(seq) : \A j \in 1..(i - 1) : seq[j] # seq[i]}
        order == Ascending(first)
    IN  [j \in 1..Len(order) |-> seq[order[j]]]

HasRepetition(seq) == Len(Unique(seq)) # Len(seq)

\* Series of the same index as the first one.
SameIndex(ss) == \A i \in 1..Len(ss) : Labels(ss[i]) = Labels(ss[1])

\* The value of the Series s at label l, NaN (NaT) where s has no such label.
At(s, l) ==
    IF \E i \in 1..Len(s) : s[i][1] = l
    THEN s[CHOOSE i \in 1..Len(s) : s[i][1] = l][2]
    ELSE NaN

\* pd.DataFrame({name: Series, ...}): the rows are the union of the indexes
\* of the Series, and every Series is re-indexed to that union, which raises
\* for a Series with repeated labels.  The default index and an index of
\* dates share no label and cannot be sorted together: the union lists the
\* labels of the first Series and then the labels not seen yet.
DataFrameOf(names, ss) ==
    IF SameIndex(ss)
    THEN [exc |-> "none",
          df |-> Frame(names, [r \in 1..Len(ss[1]) |->
                                  [c \in 1..Len(ss) |-> ss[c][r][2]]])]
    ELSE IF \E c \in 1..Len(ss) : HasRepetition(Labels(ss[c]))
    THEN [exc |-> "ValueError", df |-> NoFrame]
    ELSE LET index == Unique(Concat([c \in 1..Len(ss) |-> Labels(ss[c])]))
         IN  [exc |-> "none",
              df |-> Frame(names, [r \in 1..Len(index) |->
                                      [c \in 1..Len(ss) |-> At(ss[c], index[r])]])]

\* How the library continues the trend to the first and last half period.
\* statsmodels fits a least-squares line to the nearest period of defined
\* values; the model does not compute that line and takes either the nearest
\* defined value or the line through the two nearest defined values.
EdgeRules == {"nearest", "line"}

RECURSIVE Sum(_)
Sum(xs) == IF xs = <<>> THEN 0 ELSE Head(xs) + Sum(Tail(xs))

\* The centred moving average of the filter [0.5, 1, ..., 1, 0.5] / period,
\* for an even period; defined where the window lies in the series.
centred_average(x, period, i) ==
    LET half == period \div 2
    IN  Rat(x[i - half] + x[i + half]
              + 2 * Sum([j \in 1..(period - 1) |-> x[i - half + j]]),
            2 * period)

\* The trend of seasonal_decompose(..., extrapolate_trend='freq').
trend_of(x, period, rule) ==
    LET n == Len(x)
        half == period \div 2
        front == half + 1
        back == n - half
        avg(i) == centred_average(x, period, i)
        step(a, b, k) == RatAdd(a, RatMul(RatSub(a, b), Rat(k, 1)))
    IN  [i \in 1..n |->
            IF i < front
            THEN IF rule = "nearest" THEN avg(front)
                 ELSE step(avg(front), avg(front + 1), front - i)
            ELSE IF i > back
            THEN IF rule = "nearest" THEN avg(back)
                 ELSE step(avg(back), avg(back - 1), i - back)
            ELSE avg(i)]

\* The seasonal component: the mean of the detrended values of each position
\* in the period, less the mean of these period means.
seasonal_of(detrended, period) ==
    LET n == Len(detrended)
        phase_mean(p) ==
            LET members == SelectSeq([i \in 1..n |-> i], LAMBDA i : i % period = p % period)
            IN  RatDiv(RatSum([j \in 1..Len(members) |-> detrended[members[j]]]),
                       Len(members))
        centre == RatDiv(RatSum([p \in 1..period |-> phase_mean(p)]), period)
    IN  [i \in 1..n |-> RatSub(phase_mean(i), centre)]

Refused == [exc |-> "ValueError", trend |-> <<>>, seasonal |-> <<>>, resid |-> <<>>]

\* The additive components of a Series of numbers, as Series of its index:
\* resid is what the trend and the seasonal component leave of the values.
components(ts, period, rule) ==
    LET n == Len(ts)
        x == [i \in 1..n |-> ts[i][2].v]
        t == trend_of(x, period, rule)
        d == [i \in 1..n |-> RatSub(Rat(x[i], 1), t[i])]
        s == seasonal_of(d, period)
    IN  [exc |-> "none",
         trend |-> [i \in 1..n |-> <<ts[i][1], Real(t[i])>>],
         seasonal |-> [i \in 1..n |-> <<ts[i][1], Real(s[i])>>],
         resid |-> [i \in 1..n |-> <<ts[i][1], Real(RatSub(d[i], s[i]))>>]]

\* seasonal_decompose accepting a Series one observation short of two cycles.
seasonal_decompose_short(ts, period, rule) ==
    IF \E i \in 1..Len(ts) : ts[i][2].k # "num" THEN Refused
    ELSE IF Len(ts) + 1 < 2 * period THEN Refused
    ELSE components(ts, period, rule)

\* seasonal_decompose(ts, model='additive', period=period,
\* extrapolate_trend='freq') of statsmodels: it raises ValueError for a
\* Series with a missing value and for fewer than two complete cycles.
seasonal_decompose(ts, period, rule) ==
    IF \E i \in 1..Len(ts) : ts[i][2].k # "num" THEN Refused
    ELSE IF Len(ts) < 2 * period THEN Refused
    ELSE components(ts, period, rule)

DecompositionColumns ==
    <<W_date, W_observed, W_trend, W_seasonal, W_residual>>

\* Adds the column c of the row-wise differences a - b.
with_difference(frame, c, a, b) ==
    Frame(Append(frame.columns, c),
          [r \in 1..Len(frame.rows) |->
              Append(frame.rows[r],
                     fsub(ToReal(Column(frame, a)[r]), ToReal(Column(frame, b)[r])))])

\* perform_seasonal_decomposition(df, period): the exception it raises or
\* the frame it returns.
perform_seasonal_decomposition(frame, period, rule) ==
    LET decomposition == seasonal_decompose(indexed(frame, W_date, W_co2), period, rule)
    IN  IF decomposition.exc # "none" THEN [exc |-> decomposition.exc, df |-> NoFrame]
        ELSE LET result == DataFrameOf(DecompositionColumns,
                                       <<series(frame, W_date), series(frame, W_co2),
                                         decomposition.trend, decomposition.seasonal,
                                         decomposition.resid>>)
             IN  IF result.exc # "none" THEN result
                 ELSE [exc |-> "none",
                       df |-> with_difference(
                                  with_difference(result.df, W_detrended, W_observed, W_trend),
                                  W_deseasonalized, W_observed, W_seasonal)]

-----------------------------------------------------------------------------
(* analyze.py as a script *)

\* 365.25, the days of a year
DaysPerYear == Rat(1461, 4)

\* Leading coefficients np.polyfit(x, y, 2) may return, in billionths of a
\* ppm per day squared; the fit itself is the library's.
LeadingCoefficients == {Rat(-2, 1), Rat(0, 1), Rat(3, 1)}

\* The curvature without the factor of the second derivative.
curvature_of_leading(z0) == RatMul(RatMul(z0, DaysPerYear), DaysPerYear)

\* curvature = 2 * z[0] * 365.25 * 365.25
curvature_of(z0) == RatMul(RatMul(RatMul(Rat(2, 1), z0), DaysPerYear), DaysPerYear)

\* What no step of the analyzer or of a visualizer changes.
upstream == <<script, runs, sysPath, http, fetched, started, rawFile, histFile,
              cleanFile, colMap>>

analysisFiles == <<decompFile, growthFile, decadeFile>>
visuals == <<charts, figures, dashboard, printed>>

\* line 113: df = pd.read_csv(INPUT_FILE, parse_dates=["date"])
AnalyzeRead ==
    /\ script = "analyze" /\ pc = "read"
    /\ IF cleanFile = Absent
       THEN Exit("FileNotFoundError") /\ UNCHANGED df
       ELSE /\ df' = read_table(cleanFile)
            /\ pc' = "statistics"
            /\ UNCHANGED <<exc, exitCode>>
    /\ UNCHANGED <<upstream, growth_df, decade_stats, decomp_df, fit, analysisFiles, visuals>>

\* lines 118-125, the basic statistics: annual.iloc[0] raises IndexError for
\* a frame without rows, unless the year of the earliest date, taken before
\* it, has raised AttributeError (the type of an empty date column depends
\* on the version of pandas).
AnalyzeStatistics ==
    /\ script = "analyze" /\ pc = "statistics"
    /\ IF df.rows = <<>>
       THEN \E e \in {"IndexError", "AttributeError"} : Exit(e)
       ELSE pc' = "growth" /\ UNCHANGED <<exc, exitCode>>
    /\ UNCHANGED <<upstream, df, growth_df, decade_stats, decomp_df, fit, analysisFiles, visuals>>

\* The growth rates saved as soon as they are computed.
AnalyzeGrowthSavedAtOnce ==
    /\ script = "analyze" /\ pc = "growth"
    /\ growth_df' = calculate_growth_rate(df)
    /\ growthFile' = write_table(calculate_growth_rate(df))
    /\ pc' = "decades"
    /\ UNCHANGED <<upstream, exc, exitCode, df, decade_stats, decomp_df, fit,
                   decompFile, decadeFile, visuals>>

\* lines 130-138: growth_df = calculate_growth_rate(df) and the recent means
AnalyzeGrowth ==
    /\ script = "analyze" /\ pc = "growth"
    /\ growth_df' = calculate_growth_rate(df)
    /\ pc' = "decades"
    /\ UNCHANGED <<upstream, exc, exitCode, df, decade_stats, decomp_df, fit, analysisFiles, visuals>>

\* lines 142-146: decade_stats = calculate_decadal_statistics(df)
AnalyzeDecades ==
    /\ script = "analyze" /\ pc = "decades"
    /\ decade_stats' = calculate_decadal_statistics(df)
    /\ pc' = "decompose"
    /\ UNCHANGED <<upstream, exc, exitCode, df, growth_df, decomp_df, fit, analysisFiles, visuals>>

\* lines 151-158: decomp_df, decomposition = perform_seasonal_decomposition(df, period=12)
AnalyzeDecompose ==
    /\ script = "analyze" /\ pc = "decompose"
    /\ \E rule \in EdgeRules :
          LET r == perform_seasonal_decomposition(df, 12, rule)
          IN  IF r.exc # "none"
              THEN Exit(r.exc) /\ UNCHANGED decomp_df
              ELSE /\ decomp_df' = r.df
                   /\ pc' = "residuals"
                   /\ UNCHANGED <<exc, exitCode>>
    /\ UNCHANGED <<upstream, df, growth_df, decade_stats, fit, analysisFiles, visuals>>

\* lines 163-168: resid_stats = analyze_residuals(decomp_df); the test of
\* normality has the 24 or more residuals it needs
AnalyzeResiduals ==
    /\ script = "analyze" /\ pc = "residuals"
    /\ pc' = "linear"
    /\ UNCHANGED <<upstream, exc, exitCode, df, growth_df, decade_stats, decomp_df, fit,
                   analysisFiles, visuals>>

\* lines 175-185: stats.linregress(x, y), x the days since the first date; it
\* raises ValueError when all x are the same day
AnalyzeLinear ==
    /\ script = "analyze" /\ pc = "linear"
    /\ IF \A r \in 1..Len(df.rows) : Column(df, W_date)[r] = Column(df, W_date)[1]
       THEN Exit("ValueError")
       ELSE pc' = "quadratic" /\ UNCHANGED <<exc, exitCode>>
    /\ UNCHANGED <<upstream, df, growth_df, decade_stats, decomp_df, fit, analysisFiles, visuals>>

\* lines 188-195: z = np.polyfit(x, y, 2) and the curvature printed
AnalyzeQuadratic ==
    /\ script = "analyze" /\ pc = "quadratic"
    /\ \E z0 \in LeadingCoefficients :
          fit' = [z0 |-> z0, curvature |-> curvature_of(z0), done |-> TRUE]
    /\ pc' = "save_decomposition"
    /\ UNCHANGED <<upstream, exc, exitCode, df, growth_df, decade_stats, decomp_df,
                   analysisFiles, visuals>>

\* lines 202-203: decomp_df.to_csv("analysis_decomposition.csv", index=False)
AnalyzeSaveDecomposition ==
    /\ script = "analyze" /\ pc = "save_decomposition"
    /\ decompFile' = write_table(decomp_df)
    /\ pc' = "save_growth"
    /\ UNCHANGED <<upstream, exc, exitCode, df, growth_df, decade_stats, decomp_df, fit,
                   growthFile, decadeFile, visuals>>

\* lines 206-207: growth_df.to_csv("analysis_growth_rate.csv", index=False)
AnalyzeSaveGrowth ==
    /\ script = "analyze" /\ pc = "save_growth"
    /\ growthFile' = write_table(growth_df)
    /\ pc' = "save_decades"
    /\ UNCHANGED <<upstream, exc, exitCode, df, growth_df, decade_stats, decomp_df, fit,
                   decompFile, decadeFile, visuals>>

\* lines 210-216: decade_stats.to_csv("analysis_by_decade.csv"), with the
\* index, and the closing prints
AnalyzeSaveDecades ==
    /\ script = "analyze" /\ pc = "save_decades"
    /\ decadeFile' = write_table(decade_stats)
    /\ Exit("none")
    /\ UNCHANGED <<upstream, df, growth_df, decade_stats, decomp_df, fit,
                   decompFile, growthFile, visuals>>

\* Largest number of monthly records of the clean file the analyzer reads.
MaxMonths == 26

\* First month of the Mauna Loa record, March 1958.
FirstMonth == 12 * 1958 + 2

\* Clean files of 0..MaxMonths consecutive monthly records.
AnalyzeInputs == {CleanCsv(FirstMonth..(FirstMonth + n - 1)) : n \in 0..MaxMonths}

\* A table an earlier run of the analyzer left.
StaleTable == CsvFile(<<W_date>>, <<>>)

\* analyze.py run on any clean file, with or without the files of an earlier run.
InitAnalyze ==
    /\ script = "analyze" /\ pc = "read"
    /\ exitCode = "none" /\ exc = "none"
    /\ runs = 1
    /\ sysPath = TRUE
    /\ http = NoResponse
    /\ fetched = "none"
    /\ started = <<>>
    /\ rawFile = Absent
    /\ histFile = Absent
    /\ cleanFile \in AnalyzeInputs \cup {Absent}
    /\ df = NoFrame
    /\ colMap = <<>>
    /\ growth_df = NoFrame /\ decade_stats = NoFrame /\ decomp_df = NoFrame
    /\ fit = NoFit
    /\ \E old \in {Absent, StaleTable} :
          decompFile = old /\ growthFile = old /\ decadeFile = old
    /\ charts = {} /\ figures = NoFigures /\ dashboard = Absent /\ printed = "none"

NextAnalyze ==
    \/ AnalyzeRead
    \/ AnalyzeStatistics
    \/ AnalyzeGrowth
    \/ AnalyzeDecades
    \/ AnalyzeDecompose
    \/ AnalyzeResiduals
    \/ AnalyzeLinear
    \/ AnalyzeQuadratic
    \/ AnalyzeSaveDecomposition
    \/ AnalyzeSaveGrowth
    \/ AnalyzeSaveDecades

SpecAnalyze == InitAnalyze /\ [][NextAnalyze]_vars

-----------------------------------------------------------------------------
(* visualize.py and visualize_interactive.py: the charts *)

W_age    == <<"a","g","e">>
W_sample == <<"s","a","m","p","l","e">>

\* Whether the frame has every column of cols.
Has(frame, cols) == \A i \in 1..Len(cols) : Positions(frame.columns, cols[i]) # {}

\* A saved PNG file and the decade curves drawn in it.
Chart(file, curves) == [file |-> file, curves |-> curves]

Raise(e) == [exc |-> e, chart |-> Chart("none", <<>>)]
Saved(chart) == [exc |-> "none", chart |-> chart]

\* plot_overview(df, decomp_df): a column read by name must be there
plot_overview(frame, decomp) ==
    IF Has(frame, <<W_date, W_co2>>) /\ Has(decomp, <<W_date, W_trend, W_deseasonalized>>)
    THEN Saved(Chart("fig1_overview.png", <<>>))
    ELSE Raise("KeyError")

\* plot_decomposition(decomp_df)
plot_decomposition(decomp) ==
    IF Has(decomp, <<W_date, W_observed, W_trend, W_seasonal, W_residual>>)
    THEN Saved(Chart("fig2_decomposition.png", <<>>))
    ELSE Raise("KeyError")

\* plot_growth_and_acceleration(growth_df)
plot_growth_and_acceleration(growth) ==
    IF Has(growth, <<W_year, W_growth_rate, W_growth_rate_smooth,
                     W_acceleration, W_acceleration_smooth>>)
    THEN Saved(Chart("fig3_growth_acceleration.png", <<>>))
    ELSE Raise("KeyError")

\* lambda y: int(y) // 10 * 10, the year counted in hundredths and the decade
\* in whole years
decade_of_plot(v) == (astype_int(v) \div 10) * 10

\* sorted(df["year"].apply(lambda y: int(y) // 10 * 10).unique())
plot_decades(frame) ==
    Ascending({decade_of_plot(Column(frame, W_year)[r].v) : r \in 1..Len(frame.rows)})

\* df[(df["year"] >= decade) & (df["year"] < decade + 10)]
decade_subset(frame, decade) ==
    LET y == Col(frame.columns, W_year)
    IN  SelectSeq(frame.rows,
                  LAMBDA row : row[y].v >= 100 * decade /\ row[y].v < 100 * (decade + 10))

\* The decade curves with a label on every curve.
decade_curves_all_labelled(frame, entries) ==
    LET decades == plot_decades(frame)
        n == Len(decades)
        drawn == SelectSeq([i \in 1..n |-> i],
                           LAMBDA i : Len(decade_subset(frame, decades[i])) > 12)
    IN  [j \in 1..Len(drawn) |->
            [decade |-> decades[drawn[j]],
             colour |-> ((drawn[j] - 1) * entries) \div n,
             label |-> TRUE]]

\* The decades drawn: those with more than 12 records.  Each curve has its
\* decade, the entry it is drawn in of a colour table of so many entries, and
\* whether it has a label in the legend.
decade_curves(frame, entries) ==
    LET decades == plot_decades(frame)
        n == Len(decades)
        drawn == SelectSeq([i \in 1..n |-> i],
                           LAMBDA i : Len(decade_subset(frame, decades[i])) > 12)
    IN  [j \in 1..Len(drawn) |->
            [decade |-> decades[drawn[j]],
             colour |-> ((drawn[j] - 1) * entries) \div n,
             label |-> decades[drawn[j]] = decades[1] \/ decades[drawn[j]] = decades[n]]]

\* Entries of matplotlib's colour map viridis_r.
ViridisEntries == 256

\* Colours of plotly's px.colors.sequential.Viridis_r.
ViridisColours == 10

MonthsPresent(frame) == {Column(frame, W_month)[r].v : r \in 1..Len(frame.rows)}

\* plot_seasonal_cycle(df): ax1.bar draws the twelve months against the
\* monthly means, and raises ValueError unless there are twelve means or one.
plot_seasonal_cycle(frame) ==
    IF ~Has(frame, <<W_month, W_co2, W_year>>) THEN Raise("KeyError")
    ELSE IF Cardinality(MonthsPresent(frame)) \notin {1, 12} THEN Raise("ValueError")
    ELSE Saved(Chart("fig5_seasonal_analysis.png",
                     decade_curves(frame, ViridisEntries)))

\* create_seasonal_analysis_plot(df)
create_seasonal_analysis_plot(frame) ==
    Fig("seasonal", decade_curves(frame, ViridisColours))

\* create_decade_comparison_plot(df): the bars are the decades whose mean
\* growth is not NaN, with their growth_mean and growth_std
create_decade_comparison_plot(frame) ==
    LET annual == groupby_mean(frame, W_year, W_co2)
        stats == decade_summary(annual,
                                [i \in 1..Len(annual) |-> decade_of_year(annual[i][1].v)])
        kept == SelectSeq(stats.rows, LAMBDA row : row[5].k # "nan")
    IN  Fig("decades", [j \in 1..Len(kept) |->
                           [decade |-> kept[j][1], growth_mean |-> kept[j][5],
                            growth_std |-> kept[j][6]]])

-----------------------------------------------------------------------------
(* The historical chart *)

\* pd.read_csv("co2_historical.csv", comment='"', skipinitialspace=True) and
\* hist.columns.str.strip()
read_historical(file) ==
    LET names == mangle_dupe_cols([i \in 1..Len(file.header) |-> lstrip(file.header[i])])
    IN  Frame([i \in 1..Len(names) |-> strip(names[i])],
              [r \in 1..Len(file.rows) |->
                  [i \in 1..Len(file.rows[r]) |->
                      IF file.rows[r][i].k = "empty" THEN NaN ELSE file.rows[r][i]]])

\* The rule for the co2 column without its second condition.
is_co2_column_any(col) == contains(W_co2, lower(col))

\* 'co2' in col.lower() and 'age' not in col.lower()
is_co2_column(col) == contains(W_co2, lower(col)) /\ ~contains(W_age, lower(col))

\* any(x in col.lower() for x in ['year', 'age', 'yr', 'date', 'sample'])
is_year_column(col) ==
    \E w \in {W_year, W_age, W_yr, W_date, W_sample} : contains(w, lower(col))

\* The position of the first column that matches, 0 for None; matches[i]
\* tells whether column i does.
first_column(matches) ==
    IF \E i \in 1..Len(matches) : matches[i]
    THEN CHOOSE i \in 1..Len(matches) : matches[i] /\ \A j \in 1..(i - 1) : ~matches[j]
    ELSE 0

\* The body of the try block up to the chart: the rows before 1958 and the
\* rows from 1958 on, or why there is no chart.  "error" stands for the
\* exceptions of the block: the KeyError of hist[['year', 'co2']], the
\* TypeError of a column name held twice, and the ValueError of int(NaN)
\* when there is no row before 1958 or none from 1958 on.
historical_data(file) ==
    LET hist == read_historical(file)
        c == first_column([i \in 1..Len(hist.columns) |-> is_co2_column(hist.columns[i])])
        y == first_column([i \in 1..Len(hist.columns) |-> is_year_column(hist.columns[i])])
        renamed == [i \in 1..Len(hist.columns) |->
                       IF i = c THEN W_co2 ELSE IF i = y THEN W_year ELSE hist.columns[i]]
        none == [status |-> "error", ice_core |-> <<>>, modern |-> <<>>]
    IN  IF c = 0 THEN [none EXCEPT !.status = "no co2 column"]
        ELSE IF y = 0 THEN [none EXCEPT !.status = "no year column"]
        ELSE IF Cardinality(Positions(renamed, W_year)) # 1
                  \/ Cardinality(Positions(renamed, W_co2)) # 1 THEN none
        ELSE LET rows == SelectSeq([r \in 1..Len(hist.rows) |-> <<hist.rows[r][y], hist.rows[r][c]>>],
                                   LAMBDA row : row[1].k = "num" /\ row[2].k = "num")
                 ice_core == SelectSeq(rows, LAMBDA row : row[1].v < 195800)
                 modern == SelectSeq(rows, LAMBDA row : row[1].v >= 195800)
             IN  IF ice_core = <<>> \/ modern = <<>> THEN none
                 ELSE [status |-> "ok", ice_core |-> ice_core, modern |-> modern]

\* historical_chart without the handler of Exception.
historical_chart_uncaught(file) ==
    LET data == historical_data(file)
    IN  CASE data.status = "ok" -> [exc |-> "none", saved |-> TRUE, printed |-> "saved"]
          [] data.status = "error" -> [exc |-> "ValueError", saved |-> FALSE, printed |-> "none"]
          [] OTHER -> [exc |-> "none", saved |-> FALSE, printed |-> data.status]

\* What plot_historical_context does with a file that is there.
historical_chart(file) ==
    LET data == historical_data(file)
    IN  CASE data.status = "ok" -> [exc |-> "none", saved |-> TRUE, printed |-> "saved"]
          [] data.status = "error" -> [exc |-> "none", saved |-> FALSE, printed |-> "error"]
          [] OTHER -> [exc |-> "none", saved |-> FALSE, printed |-> data.status]

\* plot_historical_context without the handler of FileNotFoundError.
plot_historical_context_unguarded(file) ==
    IF file = Absent
    THEN [exc |-> "FileNotFoundError", saved |-> FALSE, printed |-> "none"]
    ELSE historical_chart(file)

\* plot_historical_context(): the exception that leaves it ("none": it
\* returns), whether it saved fig4_historical_context.png, and the line it
\* printed.
plot_historical_context(file) ==
    IF file = Absent
    THEN [exc |-> "none", saved |-> FALSE, printed |-> "not found, skipping"]
    ELSE historical_chart(file)

\* create_historical_plot(): the exception that leaves it, the figure or
\* None, and the line it printed; a missing file is one of the exceptions the
\* block catches.
create_historical_plot(file) ==
    IF file = Absent
    THEN [exc |-> "none", fig |-> None, printed |-> "could not create"]
    ELSE LET data == historical_data(file)
         IN  CASE data.status = "ok" ->
                    [exc |-> "none", fig |-> Fig("historical", <<>>), printed |-> "none"]
               [] data.status = "error" ->
                    [exc |-> "none", fig |-> None, printed |-> "could not create"]
               [] OTHER -> [exc |-> "none", fig |-> None, printed |-> "none"]

-----------------------------------------------------------------------------
(* visualize.py as a script *)

\* The exception of pd.read_csv(file, parse_dates=["date"]), "none" if it
\* returns.
read_error(file, dated) ==
    IF file = Absent THEN "FileNotFoundError"
    ELSE IF dated /\ Positions(file.header, W_date) = {} THEN "ValueError"
    ELSE "none"

\* The three pd.read_csv calls both visualizers start with.
LoadTables ==
    LET e1 == read_error(cleanFile, TRUE)
        e2 == read_error(decompFile, TRUE)
        e3 == read_error(growthFile, FALSE)
        e == IF e1 # "none" THEN e1 ELSE IF e2 # "none" THEN e2 ELSE e3
    IN  IF e # "none"
        THEN Exit(e) /\ UNCHANGED <<df, decomp_df, growth_df>>
        ELSE /\ df' = read_table(cleanFile)
             /\ decomp_df' = read_table(decompFile)
             /\ growth_df' = read_table(growthFile)
             /\ pc' = "loaded"
             /\ UNCHANGED <<exc, exitCode>>

\* A plotting function of visualize.py was called: its chart is saved and
\* the script goes on at next, or its exception ends the script.
Plotted(r, next) ==
    IF r.exc # "none"
    THEN Exit(r.exc) /\ UNCHANGED charts
    ELSE /\ charts' = charts \cup {r.chart}
         /\ pc' = next
         /\ UNCHANGED <<exc, exitCode>>

\* lines 305-307
VisualizeLoad ==
    /\ script = "visualize" /\ pc = "load"
    /\ LoadTables
    /\ UNCHANGED <<upstream, decade_stats, fit, analysisFiles, visuals>>

\* line 310: plot_overview(df, decomp_df)
VisualizeOverview ==
    /\ script = "visualize" /\ pc = "loaded"
    /\ Plotted(plot_overview(df, decomp_df), "decomposition")
    /\ UNCHANGED <<upstream, df, growth_df, decade_stats, decomp_df, fit, analysisFiles,
                   figures, dashboard, printed>>

\* line 311: plot_decomposition(decomp_df)
VisualizeDecomposition ==
    /\ script = "visualize" /\ pc = "decomposition"
    /\ Plotted(plot_decomposition(decomp_df), "growth")
    /\ UNCHANGED <<upstream, df, growth_df, decade_stats, decomp_df, fit, analysisFiles,
                   figures, dashboard, printed>>

\* line 312: plot_growth_and_acceleration(growth_df)
VisualizeGrowth ==
    /\ script = "visualize" /\ pc = "growth"
    /\ Plotted(plot_growth_and_acceleration(growth_df), "historical")
    /\ UNCHANGED <<upstream, df, growth_df, decade_stats, decomp_df, fit, analysisFiles,
                   figures, dashboard, printed>>

\* line 313: plot_historical_context()
VisualizeHistorical ==
    /\ script = "visualize" /\ pc = "historical"
    /\ LET r == plot_historical_context(histFile)
       IN  /\ IF r.exc # "none"
              THEN Exit(r.exc) /\ UNCHANGED charts
              ELSE /\ charts' = IF r.saved
                                THEN charts \cup {Chart("fig4_historical_context.png", <<>>)}
                                ELSE charts
                   /\ pc' = "seasonal"
                   /\ UNCHANGED <<exc, exitCode>>
           /\ printed' = r.printed
    /\ UNCHANGED <<upstream, df, growth_df, decade_stats, decomp_df, fit, analysisFiles,
                   figures, dashboard>>

\* lines 314-319: plot_seasonal_cycle(df) and the closing prints
VisualizeSeasonal ==
    /\ script = "visualize" /\ pc = "seasonal"
    /\ LET r == plot_seasonal_cycle(df)
       IN  IF r.exc # "none"
           THEN Exit(r.exc) /\ UNCHANGED charts
           ELSE charts' = charts \cup {r.chart} /\ Exit("none")
    /\ UNCHANGED <<upstream, df, growth_df, decade_stats, decomp_df, fit, analysisFiles,
                   figures, dashboard, printed>>

-----------------------------------------------------------------------------
(* visualize_interactive.py as a script *)

\* create_overview_plot, create_decomposition_plot and
\* create_growth_acceleration_plot read the columns the charts of
\* visualize.py read.
create_figure(kind, r) == IF r.exc # "none" THEN [exc |-> r.exc, fig |-> None]
                          ELSE [exc |-> "none", fig |-> Fig(kind, <<>>)]

\* generate_html_report(figures, stats), written to keeling_dashboard.html:
\* a figure that is None is replaced by a paragraph
generate_html_report(figs) ==
    [kind |-> "html",
     sections |-> [name \in DOMAIN figs |->
                      IF figs[name] = None THEN "Figure not available" ELSE "figure"]]

\* lines 922-924
InteractiveLoad ==
    /\ script = "visualize_interactive" /\ pc = "load"
    /\ LoadTables
    /\ UNCHANGED <<upstream, decade_stats, fit, analysisFiles, visuals>>

\* lines 927-936: annual.index[0] raises IndexError for a frame without rows
InteractiveStatistics ==
    /\ script = "visualize_interactive" /\ pc = "loaded"
    /\ IF ~Has(df, <<W_year, W_co2>>) \/ ~Has(growth_df, <<W_growth_rate>>)
       THEN Exit("KeyError")
       ELSE IF df.rows = <<>> THEN Exit("IndexError")
       ELSE pc' = "figures" /\ UNCHANGED <<exc, exitCode>>
    /\ UNCHANGED <<upstream, df, growth_df, decade_stats, decomp_df, fit, analysisFiles, visuals>>

\* lines 940-949: the six figures, created in the order of the dict
InteractiveFigures ==
    /\ script = "visualize_interactive" /\ pc = "figures"
    /\ LET overview == create_figure("overview", plot_overview(df, decomp_df))
           decomposition == create_figure("decomposition", plot_decomposition(decomp_df))
           growth == create_figure("growth", plot_growth_and_acceleration(growth_df))
           historical == create_historical_plot(histFile)
           e == IF overview.exc # "none" THEN overview.exc
                ELSE IF decomposition.exc # "none" THEN decomposition.exc
                ELSE IF growth.exc # "none" THEN growth.exc
                ELSE IF ~Has(df, <<W_year, W_month, W_co2>>) THEN "KeyError"
                ELSE historical.exc
       IN  IF e # "none"
           THEN Exit(e) /\ UNCHANGED <<figures, printed>>
           ELSE /\ printed' = historical.printed
                /\ figures' = [overview |-> overview.fig,
                               decomposition |-> decomposition.fig,
                               growth |-> growth.fig,
                               decades |-> create_decade_comparison_plot(df),
                               seasonal |-> create_seasonal_analysis_plot(df),
                               historical |-> historical.fig]
                /\ pc' = "report"
                /\ UNCHANGED <<exc, exitCode>>
    /\ UNCHANGED <<upstream, df, growth_df, decade_stats, decomp_df, fit, analysisFiles,
                   charts, dashboard>>

\* lines 952-963: generate_html_report and the write of keeling_dashboard.html
InteractiveReport ==
    /\ script = "visualize_interactive" /\ pc = "report"
    /\ dashboard' = generate_html_report(figures)
    /\ Exit("none")
    /\ UNCHANGED <<upstream, df, growth_df, decade_stats, decomp_df, fit, analysisFiles,
                   charts, figures, printed>>

-----------------------------------------------------------------------------
(* The visualizers run after the analyzer *)

\* Clean files of the visualizers: two years of monthly records, three years
\* that reach into a second decade, and 27 months without the Decembers.
VisualizeInputs ==
    { CleanCsv(FirstMonth..(FirstMonth + 23)),
      CleanCsv(FirstMonth..(FirstMonth + 35)),
      CleanCsv({m \in FirstMonth..(FirstMonth + 26) : m % 12 # 11}) }

\* Rows of a historical file: ice-core and modern, ice-core only, modern only.
HistoricalRows ==
    [both |-> << <<Num(180000), Num(28000)>>, <<Num(196000), Num(31700)>> >>,
     ice_core |-> << <<Num(180000), Num(28000)>> >>,
     modern |-> << <<Num(196000), Num(31700)>> >>]

\* Headers of a historical file: "year,co2"; "Year ,CO2"; "age,ppm" (no
\* column for co2); "co2,ppm" (no column for the year); "age,co2age" (the
\* only name with co2 in it has age in it too); "co2yr,ppm" (one column that
\* matches both rules).
HistoricalHeaders ==
    << <<W_year, W_co2>>,
       << <<"Y","e","a","r"," ">>, <<"C","O","2">> >>,
       <<W_age, <<"p","p","m">> >>,
       <<W_co2, <<"p","p","m">> >>,
       <<W_age, <<"c","o","2","a","g","e">> >>,
       << <<"c","o","2","y","r">>, <<"p","p","m">> >> >>

\* The historical files the visualizers may find.
HistoricalInputs ==
    {CsvFile(HistoricalHeaders[h], HistoricalRows.both) : h \in 1..Len(HistoricalHeaders)}
       \cup {CsvFile(HistoricalHeaders[1], HistoricalRows.ice_core),
             CsvFile(HistoricalHeaders[1], HistoricalRows.modern)}

\* The user starts a visualizer after the analyzer has ended: a new process,
\* which finds the files the analyzer left.
StartVisualizer ==
    /\ script = "analyze" /\ pc = "exit"
    /\ \E s \in {"visualize", "visualize_interactive"} : script' = s
    /\ pc' = "load"
    /\ runs' = runs + 1
    /\ exc' = "none" /\ exitCode' = "none"
    /\ df' = NoFrame /\ growth_df' = NoFrame /\ decade_stats' = NoFrame
    /\ decomp_df' = NoFrame /\ fit' = NoFit
    /\ printed' = "none"
    /\ UNCHANGED <<sysPath, http, fetched, started, rawFile, histFile, cleanFile, colMap,
                   analysisFiles, charts, figures, dashboard>>

\* The analyzer or either visualizer, started on a clean file, with or without
\* the historical file; the analysis files are those the analyzer writes.
InitVisualize ==
    /\ script \in {"analyze", "visualize", "visualize_interactive"}
    /\ pc = IF script = "analyze" THEN "read" ELSE "load"
    /\ exitCode = "none" /\ exc = "none"
    /\ runs = 1
    /\ sysPath = TRUE
    /\ http = NoResponse
    /\ fetched = "none"
    /\ started = <<>>
    /\ rawFile = Absent
    /\ histFile \in HistoricalInputs \cup {Absent}
    /\ cleanFile \in VisualizeInputs
    /\ df = NoFrame
    /\ colMap = <<>>
    /\ DownstreamIdle

NextVisualize ==
    \/ NextAnalyze
    \/ StartVisualizer
    \/ VisualizeLoad
    \/ VisualizeOverview
    \/ VisualizeDecomposition
    \/ VisualizeGrowth
    \/ VisualizeHistorical
    \/ VisualizeSeasonal
    \/ InteractiveLoad
    \/ InteractiveStatistics
    \/ InteractiveFigures
    \/ InteractiveReport

SpecVisualize == InitVisualize /\ [][NextVisualize]_vars

-----------------------------------------------------------------------------
(* The functions called one by one *)

\* Largest number of calendar years of the records the functions are called on.
MaxYears == 7

Years == FirstYear..(FirstYear + MaxYears - 1)

\* The months of year y that have a record: all twelve, or March and
\* September in every other year, from the first, and June in the others.
MonthsOf(y, layout) ==
    IF layout = "monthly" THEN {12 * y + m - 1 : m \in 1..12}
    ELSE IF (y - FirstYear) % 2 = 0 THEN {12 * y + 2, 12 * y + 8}
    ELSE {12 * y + 5}

\* Clean frames for any years of the record present, a calendar year missing
\* or not.
CallInputs ==
    { read_table(CleanCsv(UNION {MonthsOf(y, layout) : y \in S})) :
        S \in (SUBSET Years) \ {{}}, layout \in {"monthly", "sparse"} }

\* calculate_growth_rate(df)
CallGrowthRate ==
    /\ script = "session" /\ pc = "call"
    /\ growth_df' = calculate_growth_rate(df)
    /\ Exit("none")
    /\ UNCHANGED <<upstream, df, decade_stats, decomp_df, fit, analysisFiles, visuals>>

\* calculate_decadal_statistics(df)
CallDecadalStatistics ==
    /\ script = "session" /\ pc = "call"
    /\ decade_stats' = calculate_decadal_statistics(df)
    /\ Exit("none")
    /\ UNCHANGED <<upstream, df, growth_df, decomp_df, fit, analysisFiles, visuals>>

\* plot_seasonal_cycle(df)
CallPlotSeasonalCycle ==
    /\ script = "session" /\ pc = "call"
    /\ LET r == plot_seasonal_cycle(df)
       IN  IF r.exc # "none"
           THEN Exit(r.exc) /\ UNCHANGED charts
           ELSE charts' = charts \cup {r.chart} /\ Exit("none")
    /\ UNCHANGED <<upstream, df, growth_df, decade_stats, decomp_df, fit, analysisFiles,
                   figures, dashboard, printed>>

\* create_seasonal_analysis_plot(df)
CallSeasonalAnalysisPlot ==
    /\ script = "session" /\ pc = "call"
    /\ figures' = [figures EXCEPT !.seasonal = create_seasonal_analysis_plot(df)]
    /\ Exit("none")
    /\ UNCHANGED <<upstream, df, growth_df, decade_stats, decomp_df, fit, analysisFiles,
                   charts, dashboard, printed>>

\* create_decade_comparison_plot(df)
CallDecadeComparisonPlot ==
    /\ script = "session" /\ pc = "call"
    /\ figures' = [figures EXCEPT !.decades = create_decade_comparison_plot(df)]
    /\ Exit("none")
    /\ UNCHANGED <<upstream, df, growth_df, decade_stats, decomp_df, fit, analysisFiles,
                   charts, dashboard, printed>>

\* A session that has read clean records and calls one of the functions.
InitCalls ==
    /\ script = "session" /\ pc = "call"
    /\ exitCode = "none" /\ exc = "none"
    /\ runs = 1
    /\ sysPath = TRUE
    /\ http = NoResponse
    /\ fetched = "none"
    /\ started = <<>>
    /\ rawFile = Absent
    /\ histFile = Absent
    /\ cleanFile = Absent
    /\ df \in CallInputs
    /\ colMap = <<>>
    /\ DownstreamIdle

NextCalls ==
    \/ CallGrowthRate
    \/ CallDecadalStatistics
    \/ CallPlotSeasonalCycle
    \/ CallSeasonalAnalysisPlot
    \/ CallDecadeComparisonPlot

SpecCalls == InitCalls /\ [][NextCalls]_vars

-----------------------------------------------------------------------------
(* The seasonal chart of long records *)

\* Largest number of decades of the records the seasonal charts are drawn of.
MaxDecades == 11

\* First year of the first of these decades.
FirstLongYear == 1960

\* The months of decade k that have a record: the twelve months of its first
\* year, and, unless the decade is thin, January of its second year.
DecadeMonths(k, thin) ==
    LET y == FirstLongYear + 10 * k
    IN  {12 * y + m - 1 : m \in 1..12} \cup (IF thin THEN {} ELSE {12 * (y + 1)})

\* The thin decades among the decades a..b.
ThinDecades(a, b) == {{}, {a}, {b}, {a, b}, (a + 1)..(b - 1)}

\* The clean frame of the decades a..b, those of thin being thin.
LongFrame(a, b, thin) ==
    read_table(CleanCsv(UNION {DecadeMonths(k, k \in thin) : k \in a..b}))

\* Clean frames of consecutive decades, thin or not.
LongInputs ==
    UNION { {LongFrame(p[1], p[2], thin) : thin \in ThinDecades(p[1], p[2])} :
              p \in {q \in (0..(MaxDecades - 1)) \X (0..(MaxDecades - 1)) : q[1] <= q[2]} }

\* A session that has read long records and draws a seasonal chart.
InitSeasonal ==
    /\ script = "session" /\ pc = "call"
    /\ exitCode = "none" /\ exc = "none"
    /\ runs = 1
    /\ sysPath = TRUE
    /\ http = NoResponse
    /\ fetched = "none"
    /\ started = <<>>
    /\ rawFile = Absent
    /\ histFile = Absent
    /\ cleanFile = Absent
    /\ df \in LongInputs
    /\ colMap = <<>>
    /\ DownstreamIdle

NextSeasonal == CallPlotSeasonalCycle \/ CallSeasonalAnalysisPlot

SpecSeasonal == InitSeasonal /\ [][NextSeasonal]_vars

-----------------------------------------------------------------------------
(* Properties *)

Range(s) == {s[i] : i \in 1..Len(s)}

IsPrefix(s, t) == Len(s) <= Len(t) /\ SubSeq(t, 1, Len(s)) = s

StageOrder == <<"fetch", "clean", "analyze", "visualize">>

\* Exceptions that a stage function raises on bad input.
StageErrors == {"FileNotFoundError", "KeyError", "TypeError", "ValueError"}

\* The HTTP request failed: a transport error, a timeout, or an error status.
RequestFailed(resp) ==
    resp.kind \in {"ConnectionError", "Timeout"}
        \/ (resp.kind = "ok" /\ resp.status \in 400..599)

C2_DriverRunsAllStages ==
    (script = "run_pipeline" /\ pc = "exit" /\ sysPath) =>
        \/ exc = "none" /\ exitCode = "0" /\ started = StageOrder
        \/ exc \in StageErrors

\* C3: download_data returns normally only when the response was received
\* with success; on a transport error, a timeout or an error status an
\* exception leaves it.  fetch_data.py reaches its second download only
\* through a normal return of the first.
C3_DownloadReturnsOnlyOnSuccess ==
    (script = "fetch_data" /\ pc = "historical") => ~RequestFailed(http)

\* C4: a download_data call whose HTTP request fails leaves both data files
\* as they were: not created when absent, unchanged when present.
C4_FailedDownloadLeavesFile ==
    [][(script = "fetch_data" /\ pc \in {"monthly", "historical"} /\ RequestFailed(http'))
          => (rawFile' = rawFile /\ histFile' = histFile)]_vars

\* C4 witness: a download failed while the destination file existed.
C4_Witness ==
    /\ script = "fetch_data" /\ pc = "historical"
    /\ RequestFailed(http) /\ fetched = "failed"
    /\ rawFile # Absent

CleanReturned == script = "clean_data" /\ pc = "save"

\* load_and_clean has built its col_map (it read the raw file).
ColMapBuilt == script = "clean_data" /\ pc # "load" /\ rawFile # Absent

\* The column of the raw file that col_map maps to c.
RawCol(c) == CHOOSE i \in 1..Len(colMap) : colMap[i] = c

\* A raw value that is missing: empty, not a number, or the sentinel.
Missing(cell) ==
    cell.k \in {"empty", "text"} \/ (cell.k = "num" /\ cell.v = Sentinel)

\* The rows of the raw file whose year and co2 are both present.
RawPresent ==
    SelectSeq(rawFile.rows,
              LAMBDA row : ~Missing(row[RawCol(W_year)]) /\ ~Missing(row[RawCol(W_co2)]))

\* <<year, month, co2>> of the rows, read in the columns y, m, c.
Triples(rows, y, m, c) == [r \in 1..Len(rows) |-> <<rows[r][y], rows[r][m], rows[r][c]>>]

Pairs(rows, y, m) == [r \in 1..Len(rows) |-> <<rows[r][y], rows[r][m]>>]

BagOf(seq) == [x \in Range(seq) |-> Cardinality({i \in 1..Len(seq) : seq[i] = x})]

HasDuplicate(seq) == \E i, j \in 1..Len(seq) : i < j /\ seq[i] = seq[j]

OutCol(c) == Col(df.columns, c)

\* C6: when load_and_clean returns, no record has a missing year or co2;
\* the records are exactly the raw rows whose year and co2 are both present
\* (not empty, numeric, not the sentinel), each with the year, month and co2
\* it has in the raw file.
C6_SentinelAndMissingDropped ==
    CleanReturned =>
        /\ \A r \in 1..Len(df.rows) :
              /\ ~Missing(df.rows[r][OutCol(W_year)])
              /\ ~Missing(df.rows[r][OutCol(W_co2)])
              /\ df.rows[r][OutCol(W_year)].k = "num"
              /\ df.rows[r][OutCol(W_co2)].k = "num"
        /\ BagOf(Triples(df.rows, OutCol(W_year), OutCol(W_month), OutCol(W_co2)))
              = BagOf(Triples(RawPresent, RawCol(W_year), RawCol(W_month), RawCol(W_co2)))

\* C6 witness: the cleaner returned fewer records than the raw file has rows,
\* one of the dropped rows holding the sentinel as co2, and kept a record.
C6_Witness ==
    /\ CleanReturned
    /\ \E r \in 1..Len(rawFile.rows) : rawFile.rows[r][RawCol(W_co2)] = Num(Sentinel)
    /\ Len(df.rows) >= 1
    /\ Len(df.rows) < Len(rawFile.rows)

\* C7: when load_and_clean returns, the date column is non-decreasing in
\* row order.
C7_DatesNonDecreasing ==
    CleanReturned =>
        \A r \in 1..(Len(df.rows) - 1) :
            df.rows[r][OutCol(W_date)].v <= df.rows[r + 1][OutCol(W_date)].v

\* C7 witness: the cleaner returned records for a raw file in which a later
\* month precedes an earlier one.
C7_Witness ==
    /\ CleanReturned
    /\ Len(df.rows) >= 2
    /\ \E i, j \in 1..Len(RawPresent) :
          /\ i < j
          /\ 12 * RawPresent[i][RawCol(W_year)].v + RawPresent[i][RawCol(W_month)].v
                > 12 * RawPresent[j][RawCol(W_year)].v + RawPresent[j][RawCol(W_month)].v

\* C8 as stated: the returned records never hold two records with the same
\* (year, month), whatever the raw file holds.
C8_NoDuplicateMonths ==
    CleanReturned => ~HasDuplicate(Pairs(df.rows, OutCol(W_year), OutCol(W_month)))

\* C8 amended: the cleaner does not de-duplicate; the returned records hold
\* two records with the same (year, month) exactly when the raw file holds
\* two rows with that year and month whose year and co2 are present.
C8_DuplicatesAsInRawFile ==
    CleanReturned =>
        (HasDuplicate(Pairs(df.rows, OutCol(W_year), OutCol(W_month)))
            <=> HasDuplicate(Pairs(RawPresent, RawCol(W_year), RawCol(W_month))))

\* C8 witness: the cleaner returned two records of the same year and month.
C8_Witness ==
    /\ CleanReturned
    /\ HasDuplicate(Pairs(df.rows, OutCol(W_year), OutCol(W_month)))

\* The column names the cleaner sees: those read_csv gives, stripped.
RawColumns == read_csv(rawFile).columns

\* The vocabulary of the specification: keyword, canonical name, in priority order.
Vocabulary ==
    << <<W_yr, W_year>>, <<W_year, W_year>>, <<W_mn, W_month>>, <<W_month, W_month>>,
       <<W_co2, W_co2>>, <<W_seasonally, W_co2_adjusted>>, <<W_fit, W_co2_fit>> >>

\* The canonical names whose keywords the lower-cased name contains.
Matched(name) ==
    {Vocabulary[k][2] : k \in {j \in 1..Len(Vocabulary) :
                                  contains(Vocabulary[j][1], lower(name))}}

\* The canonical name of the first keyword, in priority order, that the
\* lower-cased name contains.
FirstMatched(name) ==
    Vocabulary[CHOOSE k \in 1..Len(Vocabulary) :
                  /\ contains(Vocabulary[k][1], lower(name))
                  /\ \A j \in 1..(k - 1) : ~contains(Vocabulary[j][1], lower(name))][2]

\* The labels of the frame load_and_clean returned.
OutLabels == Range(df.columns)

\* C9 as stated: a column whose lower-cased name contains a keyword of the
\* vocabulary is mapped to that keyword's canonical name, and a column whose
\* name contains no keyword is dropped.
C9_ColumnsMatchedBySubstring ==
    ColMapBuilt =>
        \A i \in 1..Len(RawColumns) :
            /\ \A c \in Matched(RawColumns[i]) :
                  Matched(RawColumns[i]) = {c} => colMap[i] = c
            /\ (Matched(RawColumns[i]) = {} /\ CleanReturned)
                  => RawColumns[i] \notin OutLabels

\* C9 amended: a column is mapped to year, month, co2 or co2_fit when its
\* stripped, lower-cased name is equal to "yr"/"year", "mn"/"month", "co2" or
\* "fit", and to co2_adjusted when that name contains "seasonally"; every
\* other column gets no canonical name.  The returned frame holds the mapped
\* columns, the date, and an unmapped column only if its name is literally
\* co2_adjusted or co2_fit.
C9_ColumnsMatchedExactly ==
    ColMapBuilt =>
        /\ Len(colMap) = Len(RawColumns)
        /\ \A i \in 1..Len(RawColumns) :
              LET n == lower(RawColumns[i])
              IN  colMap[i] =
                    CASE n = W_yr \/ n = W_year -> W_year
                      [] n = W_mn \/ n = W_month -> W_month
                      [] n = W_co2 -> W_co2
                      [] n = W_fit -> W_co2_fit
                      [] OTHER -> IF contains(W_seasonally, n) THEN W_co2_adjusted
                                  ELSE NoName
        /\ CleanReturned =>
              OutLabels = (Range(colMap) \ {NoName})
                            \cup (Range(RawColumns) \cap {W_co2_adjusted, W_co2_fit})
                            \cup {W_date}

\* C9 witness: the cleaner returned for a header in which one name matched
\* in another case and another name, which contains "fit", got no canonical name.
C9_Witness ==
    /\ CleanReturned
    /\ \E i \in 1..Len(RawColumns) : colMap[i] = W_year /\ RawColumns[i] # W_year
    /\ \E i \in 1..Len(RawColumns) :
          contains(W_fit, lower(RawColumns[i])) /\ colMap[i] = NoName

\* C10 as stated: a column whose name contains keywords of several canonical
\* names gets the canonical name of the first of them in the priority order
\* year, month, co2, seasonally, fit.
C10_FirstKeywordWins ==
    ColMapBuilt =>
        \A i \in 1..Len(RawColumns) :
            Cardinality(Matched(RawColumns[i])) >= 2
                => colMap[i] = FirstMatched(RawColumns[i])

\* C10 amended: a column whose name contains keywords of several canonical
\* names is mapped to co2_adjusted when it contains "seasonally" and gets no
\* canonical name otherwise, wherever the column stands in the file: no name
\* satisfies two rules of the chain, so no tie is ever broken.
C10_SeveralKeywordsSeasonallyOnly ==
    ColMapBuilt =>
        \A i \in 1..Len(RawColumns) :
            Cardinality(Matched(RawColumns[i])) >= 2
                => colMap[i] = IF contains(W_seasonally, lower(RawColumns[i]))
                               THEN W_co2_adjusted ELSE NoName

\* C10 witness: the cleaner mapped a header whose first column contains
\* several keywords, one of them "seasonally" in a later column.
C10_Witness ==
    /\ ColMapBuilt
    /\ Cardinality(Matched(RawColumns[1])) >= 2
    /\ \E i \in 2..Len(RawColumns) :
          /\ Cardinality(Matched(RawColumns[i])) >= 2
          /\ colMap[i] = W_co2_adjusted

-----------------------------------------------------------------------------
(* Missing columns *)

\* No raw column got the canonical name c.
NoColumnMapped(c) == \A i \in 1..Len(colMap) : colMap[i] # c

\* Some canonical name was given to two raw columns.
MappedTwice(c) == Cardinality({i \in 1..Len(colMap) : colMap[i] = c}) > 1

\* C11 as stated: whenever no column is mapped to year or no column is mapped
\* to co2, the cleaner ends with a SchemaError, an error of its own for the
\* schema, and writes no clean CSV.
C11_FailsWithSchemaError ==
    (ColMapBuilt /\ (NoColumnMapped(W_year) \/ NoColumnMapped(W_co2))) =>
        /\ pc = "exit"
        /\ exc = "SchemaError"
        /\ cleanFile = Absent

\* C11 amended: whenever no column is mapped to year or no column is mapped
\* to co2, the cleaner ends with status 1 and writes no clean CSV, by the
\* unhandled KeyError of the first lookup of a missing column, or by the
\* TypeError of a year or month column mapped twice that is converted before
\* the missing co2 column is looked up; no error of its own is raised.
C11_FailsWithLookupError ==
    (ColMapBuilt /\ (NoColumnMapped(W_year) \/ NoColumnMapped(W_co2))) =>
        /\ pc = "exit"
        /\ exitCode = "1"
        /\ cleanFile = Absent
        /\ exc \in {"KeyError", "TypeError"}
        /\ NoColumnMapped(W_year) => exc = "KeyError"
        /\ exc = "TypeError" => (MappedTwice(W_year) \/ MappedTwice(W_month))

\* C11 witness: the cleaner ended by the KeyError of the co2 lookup, for a
\* header that has a year and a month column and none for co2.
C11_Witness ==
    /\ ColMapBuilt /\ pc = "exit"
    /\ NoColumnMapped(W_co2)
    /\ ~NoColumnMapped(W_year) /\ ~NoColumnMapped(W_month)
    /\ exc = "KeyError"

-----------------------------------------------------------------------------
(* Growth, acceleration and their moving averages *)

\* The mean co2 of the records of the frame whose year is y (in hundredths),
\* NaN when the frame has no record of that year.
MeanOfYear(frame, y) ==
    LET c == Col(frame.columns, W_year)
    IN  fmean(Column(Frame(frame.columns,
                           SelectSeq(frame.rows, LAMBDA row : row[c].v = y)),
                     W_co2))

\* calculate_growth_rate has been called in the session.
GrowthCalled == script = "session" /\ growth_df # NoFrame

\* C12: for every year Y of the annual aggregates, growth_rate(Y) is the mean
\* co2 of year Y minus the mean co2 of the calendar year Y - 1, and so
\* undefined when the records have no calendar year Y - 1, as for the first
\* year; for every set of years present in the clean records.
C12_GrowthOverCalendarYears ==
    GrowthCalled =>
        \A i \in 1..Len(growth_df.rows) :
            LET Y == growth_df.rows[i][1].v
            IN  growth_df.rows[i][3] = fsub(MeanOfYear(df, Y), MeanOfYear(df, Y - 100))

\* C13: in every row of the annual aggregates the acceleration is the growth
\* rate of the row minus the growth rate of the row before it, which is the
\* second difference of the annual means; it is undefined in the first two
\* rows and defined in every other row.
C13_AccelerationSecondDifference ==
    GrowthCalled =>
        LET rows == growth_df.rows
        IN  \A i \in 1..Len(rows) :
               /\ i <= 2 => rows[i][4] = NaN
               /\ i >= 2 => rows[i][4] = fsub(rows[i][3], rows[i - 1][3])
               /\ i >= 3 =>
                     /\ rows[i][4].k = "real"
                     /\ rows[i][4] = fsub(fsub(rows[i][2], rows[i - 1][2]),
                                          fsub(rows[i - 1][2], rows[i - 2][2]))

\* C13 witness: aggregates of three or more years whose third year has an
\* acceleration other than zero.
C13_Witness ==
    /\ GrowthCalled /\ pc = "exit"
    /\ Len(growth_df.rows) >= 3
    /\ growth_df.rows[3][4].k = "real"
    /\ growth_df.rows[3][4].v # Rat(0, 1)

\* Five times the value of cell is the sum of the five cells of column c
\* centred on row i.
IsCentredAverage(rows, cell, c, i) ==
    RatMul(cell.v, Rat(5, 1)) = RatSum([j \in 1..5 |-> rows[i - 3 + j][c].v])

\* C14 as stated: each of the two moving averages is undefined exactly in
\* the rows within 2 positions of either end of the annual series.
C14_SmoothedWithinTwoOfEnds ==
    GrowthCalled =>
        LET rows == growth_df.rows
            n == Len(rows)
        IN  \A i \in 1..n :
               /\ rows[i][5] = NaN <=> (i <= 2 \/ i > n - 2)
               /\ rows[i][6] = NaN <=> (i <= 2 \/ i > n - 2)

\* C14 amended: each moving average is the mean of the five values centred
\* on the row and is defined exactly where all five are: growth_rate_smooth
\* in every row but the first three and the last two, acceleration_smooth in
\* every row but the first four and the last two.
C14_SmoothedWhereWindowDefined ==
    GrowthCalled =>
        LET rows == growth_df.rows
            n == Len(rows)
        IN  \A i \in 1..n :
               /\ rows[i][5].k = "real" <=> (4 <= i /\ i <= n - 2)
               /\ rows[i][6].k = "real" <=> (5 <= i /\ i <= n - 2)
               /\ rows[i][5].k \in {"real", "nan"}
               /\ rows[i][6].k \in {"real", "nan"}
               /\ rows[i][5].k = "real" => IsCentredAverage(rows, rows[i][5], 3, i)
               /\ rows[i][6].k = "real" => IsCentredAverage(rows, rows[i][6], 4, i)

\* C14 witness: aggregates of seven years, with both averages defined in the
\* fifth and the growth average also in the fourth.
C14_Witness ==
    /\ GrowthCalled /\ pc = "exit"
    /\ Len(growth_df.rows) = 7
    /\ growth_df.rows[4][5].k = "real"
    /\ growth_df.rows[5][5].k = "real"
    /\ growth_df.rows[5][6].k = "real"
    /\ growth_df.rows[4][6] = NaN

-----------------------------------------------------------------------------
(* Decades *)

\* 10 * floor(Y / 10) for the year Y held, in hundredths, by a cell of value v.
FloorDecade(v) == 10 * ((v \div 100) \div 10)

\* The years (in hundredths) and the decades of the records of the session.
YearsPresent == {Column(df, W_year)[r].v : r \in 1..Len(df.rows)}
DecadesPresent == {FloorDecade(v) : v \in YearsPresent}

\* The records of the session whose year falls in the decade d.
RecordsOfDecade(d) ==
    {r \in 1..Len(df.rows) : FloorDecade(Column(df, W_year)[r].v) = d}

\* The curves are those of the decades with more than twelve records, one
\* curve each, in ascending order.
CurvesByFloorDecade(curves) ==
    /\ {curves[j].decade : j \in 1..Len(curves)}
          = {d \in DecadesPresent : Cardinality(RecordsOfDecade(d)) > 12}
    /\ \A j \in 1..(Len(curves) - 1) : curves[j].decade < curves[j + 1].decade

\* C15: the decade summary of the analyzer has exactly one row for each
\* decade 10 * floor(Y / 10) of a year Y present, and the decade curves of
\* both seasonal charts and the bars of the decade comparison are those of
\* the same decades: every place gives the year Y the decade 10 * floor(Y / 10).
C15_DecadeIsFloorOfYear ==
    script = "session" =>
        /\ \A v \in YearsPresent :
              /\ decade_of_year(v) = 100 * FloorDecade(v)
              /\ decade_of_plot(v) = FloorDecade(v)
        /\ decade_stats # NoFrame =>
              /\ Len(decade_stats.rows) = Cardinality(DecadesPresent)
              /\ {decade_stats.rows[j][1].v : j \in 1..Len(decade_stats.rows)}
                    = {100 * d : d \in DecadesPresent}
        /\ \A chart \in charts : CurvesByFloorDecade(chart.curves)
        /\ figures.seasonal # NotCreated => CurvesByFloorDecade(figures.seasonal.traces)
        /\ figures.decades # NotCreated =>
              LET bars == figures.decades.traces
                  first == CHOOSE v \in YearsPresent : \A w \in YearsPresent : v <= w
              IN  /\ {bars[j].decade.v : j \in 1..Len(bars)}
                        = {100 * FloorDecade(v) : v \in YearsPresent \ {first}}
                  /\ \A j \in 1..(Len(bars) - 1) : bars[j].decade.v < bars[j + 1].decade.v

\* C15 witness: a decade summary of two rows, for records of the 1950s and
\* of the 1960s.
C15_Witness ==
    /\ script = "session" /\ pc = "exit"
    /\ Len(decade_stats.rows) = 2
    /\ decade_stats.rows[1][1] = Num(195000)
    /\ decade_stats.rows[2][1] = Num(196000)

-----------------------------------------------------------------------------
(* The decomposition table *)

\* The cell is a number: not NaN, not NaT, not an empty field.
Defined(cell) == cell.k \in {"num", "real"}

\* C16: the table perform_seasonal_decomposition returns has one row for
\* each clean record, and row i has the date and the co2 value of clean
\* record i and a trend, a seasonal and a residual value, the trend defined
\* in every row, the rows at the edges of the series included.
C16_RowPerCleanRecord ==
    (script = "analyze" /\ decomp_df # NoFrame) =>
        /\ Len(decomp_df.rows) = Len(df.rows)
        /\ \A i \in 1..Len(decomp_df.rows) :
              /\ i <= Len(df.rows) =>
                    /\ Column(decomp_df, W_date)[i] = Column(df, W_date)[i]
                    /\ ToReal(Column(decomp_df, W_observed)[i]) = ToReal(Column(df, W_co2)[i])
              /\ Defined(Column(decomp_df, W_trend)[i])
              /\ Defined(Column(decomp_df, W_seasonal)[i])
              /\ Defined(Column(decomp_df, W_residual)[i])

\* The decomposition file as the analyzer wrote it in this run.
DecompositionWritten ==
    script = "analyze" /\ pc \in {"save_growth", "save_decades", "exit"}
        /\ decompFile \notin {Absent, StaleTable}

\* C17: in every row of the decomposition file the analyzer wrote, observed,
\* trend, seasonal, residual, detrended and deseasonalized are all defined,
\* observed is trend + seasonal + residual, detrended is observed - trend and
\* deseasonalized is observed - seasonal.
C17_RowsReconstructObserved ==
    DecompositionWritten =>
        LET table == read_table(decompFile)
            at(c, i) == Column(table, c)[i]
        IN  \A i \in 1..Len(table.rows) :
               /\ \A c \in {W_observed, W_trend, W_seasonal, W_residual,
                            W_detrended, W_deseasonalized} : Defined(at(c, i))
               /\ ToReal(at(W_observed, i)).v
                     = RatAdd(RatAdd(ToReal(at(W_trend, i)).v, ToReal(at(W_seasonal, i)).v),
                              ToReal(at(W_residual, i)).v)
               /\ ToReal(at(W_detrended, i))
                     = fsub(ToReal(at(W_observed, i)), ToReal(at(W_trend, i)))
               /\ ToReal(at(W_deseasonalized, i))
                     = fsub(ToReal(at(W_observed, i)), ToReal(at(W_seasonal, i)))

-----------------------------------------------------------------------------
(* The quadratic fit *)

\* C18 as stated: the curvature reported is the leading coefficient of the
\* quadratic fit times 365.25 squared, with no other factor.
C18_CurvatureIsLeadingCoefficientRescaled ==
    (script = "analyze" /\ fit.done) =>
        fit.curvature = RatMul(fit.z0, Rat(1461 * 1461, 16))

\* C18 amended: the curvature reported is twice the leading coefficient of
\* the quadratic fit times 365.25 squared, the second derivative of the
\* fitted parabola by the year.
C18_CurvatureIsSecondDerivative ==
    (script = "analyze" /\ fit.done) =>
        fit.curvature = RatMul(fit.z0, Rat(2 * 1461 * 1461, 16))

\* C18 witness: the analyzer has reported the curvature of a fit whose
\* leading coefficient is not zero.
C18_Witness ==
    /\ script = "analyze" /\ fit.done
    /\ fit.z0 # Rat(0, 1)
    /\ pc = "save_decomposition"

-----------------------------------------------------------------------------
(* Too few records *)

\* The analyzer runs on a clean file of fewer than 2 * 12 records.
TooFewRecords == script = "analyze" /\ cleanFile # Absent /\ Len(cleanFile.rows) < 2 * 12

\* C19: on fewer than 24 clean records the analyzer is ended by an exception
\* at the decomposition at the latest (ValueError of seasonal_decompose; for
\* no record at all the IndexError or AttributeError of the first
\* statistics): it ends with status 1, no step after the decomposition is
\* taken, no fit is made and no analysis file is written, and the ended run
\* takes no further step.
C19_TooFewRecordsHalt ==
    TooFewRecords =>
        /\ pc \in {"read", "statistics", "growth", "decades", "decompose", "exit"}
        /\ pc = "exit" =>
              /\ exitCode = "1"
              /\ cleanFile.rows # <<>> => exc = "ValueError"
              /\ exc \in {"ValueError", "IndexError", "AttributeError"}
              /\ ~ENABLED NextAnalyze
        /\ decomp_df = NoFrame /\ fit = NoFit
        /\ decompFile \in {Absent, StaleTable}
        /\ growthFile = decompFile /\ decadeFile = decompFile

\* C19 witness: the analyzer ended by the ValueError of the decomposition of
\* 23 records, after the growth rates and the decade summary were computed.
C19_Witness ==
    /\ TooFewRecords /\ Len(cleanFile.rows) = 23
    /\ pc = "exit" /\ exc = "ValueError" /\ exitCode = "1"
    /\ growth_df # NoFrame /\ decade_stats # NoFrame

-----------------------------------------------------------------------------
(* Without the historical file *)

\* The PNG files visualize.py has saved.
ChartFiles == {chart.file : chart \in charts}

\* The files of the analyzer that the visualizers read are there.
AnalysisFilesThere == decompFile # Absent /\ growthFile # Absent

\* The clean records have all twelve calendar months, as the bars of the
\* seasonal chart of visualize.py need.
TwelveMonths == Cardinality(MonthsPresent(read_table(cleanFile))) = 12

OtherFigures == {"overview", "decomposition", "growth", "decades", "seasonal"}

\* C20: without co2_historical.csv, visualize.py passes the historical
\* chart without an exception and without saving it, saves the overview, the
\* decomposition, the growth and the seasonal chart and ends with status 0,
\* and visualize_interactive.py writes the dashboard with the five other
\* figures and ends with status 0; this for the analysis files in place and,
\* for the seasonal chart of visualize.py, records of all twelve months.
C20_AbsentHistoricalSkipsOnlyItsChart ==
    histFile = Absent =>
        /\ script = "visualize" =>
              /\ "fig4_historical_context.png" \notin ChartFiles
              /\ pc = "seasonal" =>
                    ChartFiles = {"fig1_overview.png", "fig2_decomposition.png",
                                  "fig3_growth_acceleration.png"}
              /\ (pc = "exit" /\ AnalysisFilesThere) =>
                    /\ exc \in {"none", "ValueError"}
                    /\ exc = "ValueError" <=> ~TwelveMonths
                    /\ exc = "none" =>
                          /\ exitCode = "0"
                          /\ ChartFiles = {"fig1_overview.png", "fig2_decomposition.png",
                                           "fig3_growth_acceleration.png",
                                           "fig5_seasonal_analysis.png"}
        /\ (script = "visualize_interactive" /\ pc = "exit" /\ AnalysisFilesThere) =>
                  /\ exitCode = "0" /\ exc = "none"
                  /\ dashboard # Absent
                  /\ dashboard.sections.historical = "Figure not available"
                  /\ \A name \in OtherFigures : dashboard.sections[name] = "figure"
                  /\ \A name \in OtherFigures : figures[name] \notin {None, NotCreated}

\* C20 witness: visualize.py has ended with status 0 without the historical
\* file, the four other charts saved.
C20_Witness ==
    /\ script = "visualize" /\ pc = "exit" /\ histFile = Absent
    /\ exitCode = "0"
    /\ ChartFiles = {"fig1_overview.png", "fig2_decomposition.png",
                     "fig3_growth_acceleration.png", "fig5_seasonal_analysis.png"}

-----------------------------------------------------------------------------
(* The columns of the historical file *)

\* The column names of the historical file as the visualizers compare them.
HistoricalNames ==
    [i \in 1..Len(histFile.header) |-> lower(strip(histFile.header[i]))]

YearWords == {W_year, W_age, W_yr, W_date, W_sample}

\* A column name contains "co2"; a column name contains one of the words for
\* the year.
SomeNameHasCo2 == \E i \in 1..Len(HistoricalNames) : contains(W_co2, HistoricalNames[i])
SomeNameHasYearWord ==
    \E i \in 1..Len(HistoricalNames) : \E w \in YearWords : contains(w, HistoricalNames[i])

\* A column name contains "co2" and does not contain "age".
SomeNameHasCo2NotAge ==
    \E i \in 1..Len(HistoricalNames) :
        contains(W_co2, HistoricalNames[i]) /\ ~contains(W_age, HistoricalNames[i])

\* plot_historical_context has returned in visualize.py; create_historical_plot
\* has returned in visualize_interactive.py.
PlotReturned == script = "visualize" /\ pc = "seasonal"
FigureReturned == script = "visualize_interactive" /\ pc = "report"

\* The historical chart was skipped because a column was not found.
PlotSkippedForColumns == printed \in {"no co2 column", "no year column"}
FigureSkippedForColumns == figures.historical = None /\ printed = "none"

\* C21: with a historical file in which no column is identified as the co2
\* column or none as the year column, plot_historical_context and
\* create_historical_plot both return without an exception, without a chart,
\* and with a warning printed.
C21_UnmatchedColumnsSkipWithWarning ==
    (histFile # Absent /\ ~(SomeNameHasCo2NotAge /\ SomeNameHasYearWord)) =>
        /\ PlotReturned =>
              /\ "fig4_historical_context.png" \notin ChartFiles
              /\ printed \in {"no co2 column", "no year column"}
        /\ FigureReturned =>
              /\ figures.historical = None
              /\ printed # "none"

\* C22 as stated: whenever a column name of the historical file contains
\* "co2" and a column name contains one of year, age, yr, date, sample, the
\* chart is not skipped for lack of a column.
C22_SubstringIdentifiesColumns ==
    (histFile # Absent /\ SomeNameHasCo2 /\ SomeNameHasYearWord) =>
        /\ PlotReturned => ~PlotSkippedForColumns
        /\ FigureReturned => ~FigureSkippedForColumns

\* C22 amended: the chart is skipped for lack of a column exactly when no
\* column name contains "co2" without containing "age", or no column name
\* contains one of year, age, yr, date, sample; names are compared lower-cased
\* and stripped.
C22_Co2WithoutAgeIdentifiesColumns ==
    histFile # Absent =>
        /\ PlotReturned =>
              (PlotSkippedForColumns <=> ~(SomeNameHasCo2NotAge /\ SomeNameHasYearWord))
        /\ PlotReturned =>
              (printed = "no co2 column" <=> ~SomeNameHasCo2NotAge)
        /\ FigureReturned =>
              (FigureSkippedForColumns <=> ~(SomeNameHasCo2NotAge /\ SomeNameHasYearWord))

\* C22 witness: the chart is saved for the header "Year ,CO2", whose names
\* match only lower-cased and stripped.
C22_Witness ==
    /\ PlotReturned
    /\ histFile # Absent /\ histFile.header = HistoricalHeaders[2]
    /\ "fig4_historical_context.png" \in ChartFiles
    /\ printed = "saved"

\* C29: whatever the historical file holds, and without it, the step of
\* visualize.py that calls plot_historical_context goes on to the seasonal
\* chart, the step of visualize_interactive.py that creates the figures goes
\* on to the report, neither with an exception, and the report step writes
\* the dashboard and ends with status 0.
C29_HistoricalNeverPropagates ==
    [][/\ (script = "visualize" /\ pc = "historical") =>
              (pc' = "seasonal" /\ exc' = "none" /\ exitCode' = "none")
       /\ (script = "visualize_interactive" /\ pc = "figures") =>
              (pc' = "report" /\ exc' = "none" /\ exitCode' = "none")
       /\ (script = "visualize_interactive" /\ pc = "report") =>
              (dashboard' # Absent /\ exitCode' = "0")]_vars

\* C29 witness: plot_historical_context has returned after an exception
\* raised and caught inside it, for a file whose one column matches both the
\* co2 and the year rule.
C29_Witness ==
    /\ PlotReturned
    /\ histFile # Absent /\ histFile.header = HistoricalHeaders[6]
    /\ printed = "error"
    /\ "fig4_historical_context.png" \notin ChartFiles

-----------------------------------------------------------------------------
(* The clean file *)

\* clean_data.py has written co2_clean.csv.
CleanWritten == script = "clean_data" /\ pc = "exit" /\ cleanFile # Absent

\* The canonical names the clean file holds, in canonical order.
CanonWritten == SelectSeq(CanonOrder, LAMBDA c : \E i \in 1..Len(cleanFile.header) : cleanFile.header[i] = c)

\* C23 as stated: the columns of the clean file are date, year, month, co2,
\* then co2_adjusted and co2_fit when present, in this order.
C23_DateFirst ==
    CleanWritten => cleanFile.header = <<W_date>> \o CanonWritten

\* The names of the clean file in the order the cleaner keeps them.
CleanOrder == CanonOrder \o <<W_date>>

\* The place of the name c in that order.
CleanRank(c) == CHOOSE k \in 1..Len(CleanOrder) : CleanOrder[k] = c

\* How many columns of the clean file are named c.
TimesWritten(c) == Cardinality({i \in 1..Len(cleanFile.header) : cleanFile.header[i] = c})

\* C23: the columns of the clean file are year, month, co2, then the
\* co2_adjusted and the co2_fit columns when present, then date, in this
\* order: year, month, co2 and date once each, an optional name once per raw
\* column that bears it after the renaming; every row has one value per
\* column, the last one a date.
C23_DateLast ==
    CleanWritten =>
        /\ \A i \in 1..Len(cleanFile.header) :
              \E k \in 1..Len(CleanOrder) : cleanFile.header[i] = CleanOrder[k]
        /\ \A i, j \in 1..Len(cleanFile.header) :
              i < j => CleanRank(cleanFile.header[i]) <= CleanRank(cleanFile.header[j])
        /\ \A c \in {W_year, W_month, W_co2, W_date} : TimesWritten(c) = 1
        /\ \A c \in {W_co2_adjusted, W_co2_fit} :
              LET renamed == rename(read_csv(rawFile).columns)
              IN  TimesWritten(c) = Cardinality({i \in 1..Len(renamed) : renamed[i] = c})
        /\ \A r \in 1..Len(cleanFile.rows) :
              /\ Len(cleanFile.rows[r]) = Len(cleanFile.header)
              /\ cleanFile.rows[r][Len(cleanFile.header)].k = "date"

\* C23 witness: the clean file was written with a record and with both
\* optional columns.
C23_Witness ==
    /\ CleanWritten
    /\ Len(cleanFile.rows) >= 1
    /\ Len(cleanFile.header) = 6
    /\ cleanFile.header[4] = W_co2_adjusted
    /\ cleanFile.header[5] = W_co2_fit

-----------------------------------------------------------------------------
(* Month and date of the clean records *)

\* The raw file has a row with year and co2 present whose month is v.
RawMonth(v) ==
    \E r \in 1..Len(RawPresent) : RawPresent[r][RawCol(W_month)] = v

\* C27: when load_and_clean returns, every record has an integer month in
\* 1..12 and the date of the first day of its year and month; a raw row with
\* year and co2 present and a missing or non-numeric month makes the call
\* raise.
C27_MonthAndDateDefined ==
    /\ CleanReturned =>
          \A r \in 1..Len(df.rows) :
              LET year == df.rows[r][OutCol(W_year)]
                  month == df.rows[r][OutCol(W_month)]
              IN  /\ month.k = "num"
                  /\ month.v % 100 = 0
                  /\ month.v \div 100 \in 1..12
                  /\ year.v % 100 = 0
                  /\ df.rows[r][OutCol(W_date)] = Date(year.v \div 100, month.v \div 100)
    /\ (ColMapBuilt /\ W_year \in Range(colMap) /\ W_month \in Range(colMap)
            /\ W_co2 \in Range(colMap)
            /\ \E v \in {Empty, Text} : RawMonth(v))
          => exc # "none"

\* What the cleaner keeps of it: a raw row with year and co2 present and a
\* missing or non-numeric month makes the call raise, no clean file is
\* written, and every returned record has a numeric month.
MissingMonthRaises ==
    /\ CleanReturned =>
          \A r \in 1..Len(df.rows) : df.rows[r][OutCol(W_month)].k = "num"
    /\ (ColMapBuilt /\ W_year \in Range(colMap) /\ W_month \in Range(colMap)
            /\ W_co2 \in Range(colMap)
            /\ \E v \in {Empty, Text} : RawMonth(v))
          => exc # "none" /\ cleanFile = Absent

\* The cleaner read a raw file with a month that is missing in a row whose
\* year and co2 are present, and raised.
MissingMonthSeen ==
    /\ ColMapBuilt /\ W_year \in Range(colMap) /\ W_month \in Range(colMap)
    /\ W_co2 \in Range(colMap)
    /\ RawMonth(Text)
    /\ exc = "ValueError"

-----------------------------------------------------------------------------
(* The analysis files are written last *)

\* Every computation of the analyzer has succeeded.
AllComputed ==
    /\ growth_df # NoFrame /\ decade_stats # NoFrame /\ decomp_df # NoFrame
    /\ fit.done
    /\ exc = "none"

\* The three analysis files are as the run found them.
FilesAsFound ==
    /\ decompFile \in {Absent, StaleTable}
    /\ growthFile = decompFile /\ decadeFile = decompFile

\* C28: the analyzer writes an analysis file only in a step taken after the
\* growth rates, the decade summary, the decomposition and the fits have all
\* succeeded; as long as they have not, and when the run has ended by an
\* exception, the three files are as the run found them.
C28_FilesWrittenAfterAllComputations ==
    /\ []((script = "analyze" /\ (~AllComputed \/ pc \in {"linear", "quadratic"}))
            => FilesAsFound)
    /\ [][(script = "analyze" /\ analysisFiles' # analysisFiles)
            => (AllComputed /\ pc \in {"save_decomposition", "save_growth", "save_decades"})]_vars

\* C28 witness: over the files of an earlier run, the analyzer computed the
\* growth rates and the decade summary, the decomposition raised, and the
\* old files are still there.
C28_Witness ==
    /\ script = "analyze" /\ pc = "exit" /\ exc = "ValueError"
    /\ growth_df # NoFrame /\ decade_stats # NoFrame /\ decomp_df = NoFrame
    /\ decompFile = StaleTable /\ growthFile = StaleTable /\ decadeFile = StaleTable

-----------------------------------------------------------------------------
(* Colours and legend of the seasonal chart *)

\* The curves of fig5_seasonal_analysis.png, once visualize.py's function
\* has saved it.
PlotCurves == (CHOOSE chart \in charts : chart.file = "fig5_seasonal_analysis.png").curves

SeasonalPlotSaved ==
    script = "session" /\ pc = "exit"
        /\ \E chart \in charts : chart.file = "fig5_seasonal_analysis.png"

SeasonalFigureCreated ==
    script = "session" /\ pc = "exit" /\ figures.seasonal.kind = "seasonal"

\* No two curves of different decades have the same colour.
DistinctColours(curves) ==
    \A i, j \in 1..Len(curves) :
        curves[i].decade # curves[j].decade => curves[i].colour # curves[j].colour

\* C24: in the seasonal chart of visualize.py and in that of
\* visualize_interactive.py, two curves of different decades never have the
\* same colour, however many decades the records span.
C24_DecadesHaveDistinctColours ==
    /\ SeasonalPlotSaved => DistinctColours(PlotCurves)
    /\ SeasonalFigureCreated => DistinctColours(figures.seasonal.traces)

\* What holds of the colours: they are distinct in the chart of visualize.py,
\* and in the interactive chart when the records span at most as many
\* decades as Viridis_r has colours.
ColoursDistinctUpToTable ==
    /\ SeasonalPlotSaved => DistinctColours(PlotCurves)
    /\ (SeasonalFigureCreated /\ Cardinality(DecadesPresent) <= ViridisColours)
          => DistinctColours(figures.seasonal.traces)

\* The interactive chart of records of more than ten decades was created.
ManyDecadesDrawn ==
    /\ SeasonalFigureCreated
    /\ Cardinality(DecadesPresent) > ViridisColours
    /\ Len(figures.seasonal.traces) > ViridisColours

\* The decades that have an entry in the legend.
Legend(curves) == {curves[j].decade : j \in {i \in 1..Len(curves) : curves[i].label}}

Earliest == CHOOSE d \in DecadesPresent : \A e \in DecadesPresent : d <= e
Latest == CHOOSE d \in DecadesPresent : \A e \in DecadesPresent : d >= e

\* C25 as stated: the legend of the seasonal chart has an entry for the
\* earliest decade of the records and one for the latest, and no other.
C25_LegendOfEarliestAndLatest ==
    /\ SeasonalPlotSaved => Legend(PlotCurves) = {Earliest, Latest}
    /\ SeasonalFigureCreated => Legend(figures.seasonal.traces) = {Earliest, Latest}

\* The earliest and the latest decade of the records, as far as they have
\* more than twelve records.
EndsDrawn == {d \in {Earliest, Latest} : Cardinality(RecordsOfDecade(d)) > 12}

\* C25: the legend of the seasonal chart has no entry for a decade other
\* than the earliest and the latest of the records, and has the entry of
\* each of these two exactly when the decade has more than twelve records
\* and so is drawn.
C25_LegendOfEndsDrawn ==
    /\ SeasonalPlotSaved => Legend(PlotCurves) = EndsDrawn
    /\ SeasonalFigureCreated => Legend(figures.seasonal.traces) = EndsDrawn

\* C25 witness: both charts exist in turn for records of four decades or
\* more, all drawn, with the two entries; here the one of visualize.py.
C25_Witness ==
    /\ SeasonalPlotSaved
    /\ Len(PlotCurves) >= 4
    /\ Cardinality(DecadesPresent) = Len(PlotCurves)
    /\ Cardinality(Legend(PlotCurves)) = 2

-----------------------------------------------------------------------------
(* The columns the visualizers read *)

\* The columns visualize.py and visualize_interactive.py read by name of
\* co2_clean.csv, analysis_decomposition.csv and analysis_growth_rate.csv.
ReadOfClean == {W_date, W_year, W_month, W_co2}
ReadOfDecomposition ==
    {W_date, W_observed, W_trend, W_seasonal, W_residual, W_deseasonalized}
ReadOfGrowth ==
    {W_year, W_growth_rate, W_growth_rate_smooth, W_acceleration, W_acceleration_smooth}

\* The file is there and has a column of each of the names.
Holds(file, names) ==
    file # Absent /\ \A c \in names : \E i \in 1..Len(file.header) : file.header[i] = c

\* A visualizer runs on the files the analyzer has written.
VisualizerOnWrittenFiles ==
    /\ script \in {"visualize", "visualize_interactive"}
    /\ decompFile # Absent /\ growthFile # Absent

\* C26: every column the visualizers read by name of the clean file and of
\* the analyzer's decomposition and growth files is in the file as the
\* cleaner or the analyzer writes it, under this name: a visualizer that
\* runs on these files reads them and never ends by a KeyError.
C26_ColumnsReadAreWritten ==
    /\ decompFile # Absent => Holds(decompFile, ReadOfDecomposition)
    /\ growthFile # Absent => Holds(growthFile, ReadOfGrowth)
    /\ VisualizerOnWrittenFiles =>
          /\ Holds(cleanFile, ReadOfClean)
          /\ exc # "KeyError"
          /\ (script = "visualize" /\ pc = "exit") => "fig1_overview.png" \in ChartFiles
          /\ pc \notin {"load", "exit"} =>
                /\ Has(df, <<W_date, W_year, W_month, W_co2>>)
                /\ Has(decomp_df, <<W_date, W_observed, W_trend, W_seasonal, W_residual,
                                    W_deseasonalized>>)
                /\ Has(growth_df, <<W_year, W_growth_rate, W_growth_rate_smooth,
                                    W_acceleration, W_acceleration_smooth>>)

\* C26 witness: visualize.py, run on the files the analyzer wrote, has saved
\* the charts of the overview, of the decomposition and of the growth rates.
C26_Witness ==
    /\ VisualizerOnWrittenFiles /\ script = "visualize"
    /\ {"fig1_overview.png", "fig2_decomposition.png", "fig3_growth_acceleration.png"}
          \subseteq ChartFiles

=============================================================================
